---- MODULE Spec2Model ----
(***************************************************************************)
(* Model of the site-layout generator generateBuilding (services/generator) *)
(* and of the geometry it relies on.                                        *)
(*                                                                          *)
(* Geometry is modelled on an integer lattice.  One lattice unit is UnitM   *)
(* metres; a point is a pair <<x, y>> of lattice coordinates; a ring is a   *)
(* sequence of points; a polygon that went through the pipeline is a        *)
(* region, the set of unit squares ("atoms") it covers, an atom being named *)
(* by its lower-left corner.  turf.area of a region is its atom count times *)
(* UnitM^2, turf.intersect / union / difference are the set operations.     *)
(* Boundary vertices have even coordinates so that the centred grid and the *)
(* rotation about the bounding-box centre stay on the lattice.              *)
(***************************************************************************)
EXTENDS Integers, Sequences, FiniteSets, TLC

\* ------------------------------------------------------------------------
\* Resolution of the lattice and bounds of the model
\* ------------------------------------------------------------------------

\* metres per lattice unit (the resolution of the lattice, not a bound)
UnitM == 2 * 2

\* largest config.entryIndex tried
MaxEntryIndex == 2

\* number of failures of library operations injected in one run
MaxFaults == 1

\* ------------------------------------------------------------------------
\* Program constants
\* ------------------------------------------------------------------------

MinPoints == 3
MinSiteArea == 100
lotsPerBlockRow == 8
bufferCols == 2
bufferRows == 2
MinCellArea == 50
MinLotArea == 20
MinParkBlockArea == 50
DedupeMeters == 15

\* error strings of the result
ErrNone == "none"
ErrInvalidGeometry == "Invalid Geometry"
ErrSelfIntersect == "El poligono se intersecta a si mismo"
ErrCalculationFailed == "Calculation Failed"

\* ------------------------------------------------------------------------
\* Arithmetic helpers
\* ------------------------------------------------------------------------

Abs(n) == IF n < 0 THEN -n ELSE n

Min2(a, b) == IF a < b THEN a ELSE b

Max2(a, b) == IF a < b THEN b ELSE a

SetMin(S) == CHOOSE m \in S : \A n \in S : m <= n

SetMax(S) == CHOOSE m \in S : \A n \in S : n <= m

\* Math.ceil(a / b) for b > 0
CeilDiv(a, b) == -((-a) \div b)

\* JavaScript's remainder a % b: the sign follows the dividend
JsRem(a, b) == IF a >= 0 THEN a % Abs(b) ELSE -((-a) % Abs(b))

RECURSIVE SumSeq(_)
SumSeq(s) == IF s = <<>> THEN 0 ELSE Head(s) + SumSeq(Tail(s))

Reverse(s) == [i \in 1..Len(s) |-> s[Len(s) + 1 - i]]

SeqToSet(s) == {s[i] : i \in 1..Len(s)}

\* ------------------------------------------------------------------------
\* Rings (turf.polygon, cleanCoords, rewind, kinks, area, bbox, center)
\* ------------------------------------------------------------------------

\* twice the signed area of the triangle o, a, b (positive: counterclockwise)
Cross(o, a, b) == (a[1] - o[1]) * (b[2] - o[2]) - (a[2] - o[2]) * (b[1] - o[1])

\* the ring generateBuilding hands to turf.polygon: the points, closed by
\* the first one when the last differs from it
CloseRing(pts) ==
    IF Len(pts) > 0 /\ pts[1] # pts[Len(pts)] THEN Append(pts, pts[1]) ELSE pts

\* turf.polygon throws on a ring of fewer than 4 positions
PolygonThrows(ring) == Len(ring) < 4

\* turf.cleanCoords on a closed ring: drops a vertex that repeats its
\* predecessor or lies on the segment between its two neighbours
RECURSIVE CleanFrom(_, _, _)
CleanFrom(ring, i, acc) ==
    IF i > Len(ring) THEN acc
    ELSE IF i = Len(ring) THEN Append(acc, ring[i])
    ELSE LET prev == acc[Len(acc)]
             cur == ring[i]
             nxt == ring[i + 1]
             redundant ==
                 \/ cur = prev
                 \/ /\ Cross(prev, cur, nxt) = 0
                    /\ (cur[1] - prev[1]) * (nxt[1] - cur[1]) >= 0
                    /\ (cur[2] - prev[2]) * (nxt[2] - cur[2]) >= 0
         IN CleanFrom(ring, i + 1, IF redundant THEN acc ELSE Append(acc, cur))

cleanCoords(ring) ==
    IF Len(ring) = 0 THEN ring ELSE CleanFrom(ring, 2, <<ring[1]>>)

\* twice the signed area of a closed ring (shoelace)
RECURSIVE SignedArea2From(_, _)
SignedArea2From(ring, i) ==
    IF i >= Len(ring) THEN 0
    ELSE ring[i][1] * ring[i + 1][2] - ring[i + 1][1] * ring[i][2]
         + SignedArea2From(ring, i + 1)

SignedArea2(ring) == SignedArea2From(ring, 1)

\* turf.area of a ring, in square metres
RingArea(ring) == (Abs(SignedArea2(ring)) * UnitM * UnitM) \div 2

\* turf.rewind: the exterior ring is made counterclockwise
rewind(ring) == IF SignedArea2(ring) < 0 THEN Reverse(ring) ELSE ring

\* the segments a-b and c-d cross in a point interior to both
ProperCross(a, b, c, d) ==
    LET d1 == Cross(a, b, c)
        d2 == Cross(a, b, d)
        d3 == Cross(c, d, a)
        d4 == Cross(c, d, b)
    IN /\ ((d1 > 0 /\ d2 < 0) \/ (d1 < 0 /\ d2 > 0))
       /\ ((d3 > 0 /\ d4 < 0) \/ (d3 < 0 /\ d4 > 0))

\* turf.kinks: the pairs of edges of the ring that cross
kinks(ring) ==
    {e \in (1..(Len(ring) - 1)) \X (1..(Len(ring) - 1)) :
        /\ e[1] < e[2]
        /\ ProperCross(ring[e[1]], ring[e[1] + 1], ring[e[2]], ring[e[2] + 1])}

\* turf.bbox of a ring: <<minX, minY, maxX, maxY>>
RingBbox(ring) ==
    <<SetMin({ring[i][1] : i \in 1..Len(ring)}),
      SetMin({ring[i][2] : i \in 1..Len(ring)}),
      SetMax({ring[i][1] : i \in 1..Len(ring)}),
      SetMax({ring[i][2] : i \in 1..Len(ring)})>>

\* turf.center: the centre of the bounding box
RingCenter(ring) ==
    LET b == RingBbox(ring) IN <<(b[1] + b[3]) \div 2, (b[2] + b[4]) \div 2>>

\* turf.bearing of the edge a -> b, for the axis-parallel edges of the
\* lattice: north 0, east 90, south 180, west -90
EdgeBearing(a, b) ==
    LET dx == b[1] - a[1]
        dy == b[2] - a[2]
    IN IF Abs(dx) > Abs(dy) THEN (IF dx > 0 THEN 90 ELSE -90)
       ELSE IF dy >= 0 THEN 0 ELSE 180

\* squared length of the edge a -> b
EdgeLen2(a, b) == (b[1] - a[1]) * (b[1] - a[1]) + (b[2] - a[2]) * (b[2] - a[2])

\* getPrincipalAxis: the bearing of the first longest edge
RECURSIVE PrincipalFrom(_, _, _, _)
PrincipalFrom(ring, i, maxLen, best) ==
    IF i >= Len(ring) THEN best
    ELSE LET d == EdgeLen2(ring[i], ring[i + 1])
         IN IF d > maxLen
            THEN PrincipalFrom(ring, i + 1, d, EdgeBearing(ring[i], ring[i + 1]))
            ELSE PrincipalFrom(ring, i + 1, maxLen, best)

getPrincipalAxis(ring) ==
    IF Len(ring) < 2 THEN 0 ELSE PrincipalFrom(ring, 1, 0, 0)

\* ------------------------------------------------------------------------
\* Rotation (turf.transformRotate: positive angles turn clockwise)
\* ------------------------------------------------------------------------

\* number of clockwise quarter turns of an angle that is a multiple of 90
Quarter(angle) == (angle \div 90) % 4

\* one clockwise quarter turn of the point p about the pivot c
TurnPoint(p, c) == <<c[1] + (p[2] - c[2]), c[2] - (p[1] - c[1])>>

RECURSIVE RotatePointQ(_, _, _)
RotatePointQ(p, q, c) ==
    IF q = 0 THEN p ELSE RotatePointQ(TurnPoint(p, c), q - 1, c)

RotatePoint(p, angle, c) == RotatePointQ(p, Quarter(angle), c)

RotateRing(ring, angle, c) == [i \in 1..Len(ring) |-> RotatePoint(ring[i], angle, c)]

\* one clockwise quarter turn of the atom a (named by its lower-left
\* corner) about the pivot c: its lower-right corner becomes the lower-left
TurnAtom(a, c) == TurnPoint(<<a[1] + 1, a[2]>>, c)

RECURSIVE RotateAtomQ(_, _, _)
RotateAtomQ(a, q, c) ==
    IF q = 0 THEN a ELSE RotateAtomQ(TurnAtom(a, c), q - 1, c)

RotateRegion(S, angle, c) == {RotateAtomQ(a, Quarter(angle), c) : a \in S}

\* ------------------------------------------------------------------------
\* Regions
\* ------------------------------------------------------------------------

\* the atoms inside a closed rectilinear ring: an atom is inside when a ray
\* from its centre to the right crosses an odd number of vertical edges
EdgeRightOf(ring, i, a) ==
    LET p == ring[i]
        q == ring[i + 1]
    IN /\ p[1] = q[1]
       /\ p[1] > a[1]
       /\ Min2(p[2], q[2]) <= a[2]
       /\ a[2] < Max2(p[2], q[2])

RingRegion(ring) ==
    LET b == RingBbox(ring)
    IN {a \in (b[1]..(b[3] - 1)) \X (b[2]..(b[4] - 1)) :
          Cardinality({i \in 1..(Len(ring) - 1) : EdgeRightOf(ring, i, a)}) % 2 = 1}

\* turf.area of a region, in square metres
Area(S) == Cardinality(S) * UnitM * UnitM

\* turf.bboxPolygon([x0, y0, x1, y1]) as a box; the corners may come in
\* either order
Box(x0, y0, x1, y1) == <<Min2(x0, x1), Min2(y0, y1), Max2(x0, x1), Max2(y0, y1)>>

InBox(a, b) == b[1] <= a[1] /\ a[1] < b[3] /\ b[2] <= a[2] /\ a[2] < b[4]

\* turf.intersect of a box with a region
ClipToBox(S, b) == {a \in S : InBox(a, b)}

\* turf.bbox of a non-empty region
RegionBbox(S) ==
    <<SetMin({a[1] : a \in S}), SetMin({a[2] : a \in S}),
      SetMax({a[1] : a \in S}) + 1, SetMax({a[2] : a \in S}) + 1>>

\* ------------------------------------------------------------------------
\* Values
\* ------------------------------------------------------------------------

\* null is the empty sequence; a present optional value is a one-element
\* sequence (a ring is present when it is non-empty)
Null == <<>>

Some(v) == <<v>>

\* a faulty Quotient: the share of the site that is not sold
Complement(a, b) == IF b = 0 THEN -1 ELSE ((b - a) * 1000) \div b

\* a quotient of two areas as JavaScript computes it, kept in thousandths;
\* a zero divisor gives NaN
Quotient(a, b) == IF b = 0 THEN -1 ELSE (a * 1000) \div b

emptyStats ==
    [siteArea |-> 0, netSellableArea |-> 0, roadArea |-> 0, parkArea |-> 0,
     totalLots |-> 0, efficiency |-> 0, possibleEntrances |-> 0]

\* a faulty emptyGeometry: the validity flag is left set
emptyGeometryValid ==
    [siteBoundary |-> Null, superblocks |-> <<>>, roads |-> <<>>, lots |-> <<>>,
     buildings |-> <<>>, parks |-> <<>>, trees |-> <<>>, perimeterWalls |-> <<>>,
     accessControl |-> Null, roadMarkings |-> <<>>, stopSigns |-> <<>>,
     entranceCandidates |-> <<>>, isValid |-> TRUE, error |-> ErrNone]

\* lines 57-72
emptyGeometry ==
    [siteBoundary |-> Null, superblocks |-> <<>>, roads |-> <<>>, lots |-> <<>>,
     buildings |-> <<>>, parks |-> <<>>, trees |-> <<>>, perimeterWalls |-> <<>>,
     accessControl |-> Null, roadMarkings |-> <<>>, stopSigns |-> <<>>,
     entranceCandidates |-> <<>>, isValid |-> FALSE, error |-> ErrNone]

\* ------------------------------------------------------------------------
\* Inputs of a call: boundary points, config, constraints
\* ------------------------------------------------------------------------

Rect(w, h) == <<<<0, 0>>, <<w, 0>>, <<w, h>>, <<0, h>>>>

\* fewer than three points
PtsTwo == <<<<0, 0>>, <<2, 0>>>>

\* three points that already form a closed ring of two distinct vertices
PtsClosedPair == <<<<0, 0>>, <<2, 0>>, <<0, 0>>>>

\* a triangle of 32 square metres
PtsSmallTriangle == <<<<0, 0>>, <<2, 0>>, <<0, 2>>>>

\* a square of 64 square metres
PtsSmallSquare == Rect(2, 2)

\* a bowtie quadrilateral: its first and third edges cross
PtsBowtie == <<<<0, 0>>, <<4, 4>>, <<4, 0>>, <<0, 4>>>>

\* 8 m x 40 m, given closed and with a redundant vertex on its left side
PtsNarrow == <<<<0, 0>>, <<2, 0>>, <<2, 10>>, <<0, 10>>, <<0, 4>>, <<0, 0>>>>

\* 40 m x 24 m, given clockwise, longest edge first
PtsRect == <<<<0, 6>>, <<10, 6>>, <<10, 0>>, <<0, 0>>>>

\* 40 m x 24 m with a notch of 8 m x 4 m in its right side, given clockwise,
\* longest edge first
PtsNotch ==
    <<<<0, 6>>, <<10, 6>>, <<10, 4>>, <<8, 4>>, <<8, 3>>, <<10, 3>>, <<10, 0>>, <<0, 0>>>>

\* an L-shaped parcel in a 72 m x 56 m box
PtsEll == <<<<0, 0>>, <<18, 0>>, <<18, 6>>, <<8, 6>>, <<8, 14>>, <<0, 14>>>>

\* 56 m x 8 m with a tooth of 4 m x 4 m at one end, given clockwise, longest
\* edge first
PtsTooth == <<<<14, 0>>, <<0, 0>>, <<0, 1>>, <<1, 1>>, <<1, 2>>, <<14, 2>>>>

Sites ==
    {PtsTwo, PtsClosedPair, PtsSmallTriangle, PtsSmallSquare, PtsBowtie,
     PtsNarrow, PtsRect, PtsNotch, PtsEll,
     PtsTooth}

\* metres; multiples of the lattice unit
LotWidths == {4}

LotDepths == {8}

RoadWidths == {16}

ParkPercentages == {0, 15, 100}

\* the fields of the config the grid is sized by
Configs ==
    [roadWidth : RoadWidths, lotWidth : LotWidths, lotDepth : LotDepths, stories : {2}]

\* a strip of 4 m x 28 m
PtsStrip == Rect(1, 7)

\* a config of lots of 12 m x 16 m
BigLots == [roadWidth |-> 16, lotWidth |-> 12, lotDepth |-> 16, stories |-> 2]

\* the boundaries and configs of the calls: every site with every config of
\* small lots, and the strip with the big lots, whose only block is too
\* thin for a lot
Inputs == (Sites \X Configs) \cup {<<PtsStrip, BigLots>>}

\* a constraint's position is the centre of the atom it names
ConstraintLists ==
    {<<>>,
     <<[id |-> "a", type |-> "PARK_ANCHOR", position |-> <<1, 7>>],
       [id |-> "b", type |-> "PARK_ANCHOR", position |-> <<6, 3>>]>>}

\* metres to lattice units (the Mx and My factors)
ToUnits(m) == m \div UnitM

\* ------------------------------------------------------------------------
\* State
\* ------------------------------------------------------------------------

VARIABLES
    points,         \* argument: the boundary points
    config,         \* argument: the SiteConfig, but for the two fields below
    parkPercentage, \* argument: config.parkPercentage, drawn when first read (line 215)
    entryIndex,     \* argument: config.entryIndex, drawn when first read (line 658)
    constraints,    \* argument: the user constraints
    seed,           \* the state of Math.random when the call starts
    calls,          \* the number of calls of Math.random so far
    pc,             \* the statement generateBuilding is at
    faults,         \* failures of library operations so far
    unexpected,     \* whether an operation the code does not wrap has thrown
    thrown,         \* the message of the last exception that reached the top-level handler
    ran,            \* the stages of the pipeline entered so far
    site,           \* originalSitePoly, siteArea, center, alignmentAngle, working polygon
    gridInfo,       \* the grid cells kept
    loop,           \* the counters of the grid loop
    temp,           \* tempLots, tempBuildings, tempParks, tempTrees, tempSuperblocks, ...
    block,          \* the residential block being processed
    globalLotIndex, \* the next lot id
    final,          \* the lists rotated back
    access,         \* uniqueCandidates, accessControlData, perimeterWalls
    result,         \* the value returned, Null while running
    earlier,        \* what the application kept of the call before, Null in the first call
    planting,       \* a call of fillParkWithTrees: its park, its trees, its attempts
    layer,          \* the features displayGeometry is cutting by the road polygons
    app,            \* the state of the App component
    canvas          \* the state of the MapCanvas component

vars ==
    <<points, config, parkPercentage, entryIndex, constraints, seed, calls, pc, faults,
      unexpected, thrown, ran, site, gridInfo, loop, temp, block, globalLotIndex, final, access,
      result, earlier, planting, layer, app, canvas>>

\* the state outside generateBuilding
apart == <<planting, layer, app, canvas>>

\* the arguments of the call, and the random source it starts with
args == <<points, config, parkPercentage, entryIndex, constraints, seed>>

\* the local variables of the call
locals == <<site, gridInfo, loop, temp, block, globalLotIndex, final, access>>

\* a config field that was not read yet
Unread == -1

\* Math.random is a generator whose draws are fixed by its state when the
\* call starts: the draw numbered n is above one half for every third n
Seeds == {0, 1}

IsAbove(n) == (seed + n) % 3 = 0

emptyTemp ==
    [lots |-> <<>>, buildings |-> <<>>, parks |-> <<>>, trees |-> <<>>,
     superblocks |-> <<>>, roads |-> <<>>, markings |-> <<>>, stopSigns |-> <<>>]

noSite ==
    [ring |-> <<>>, kinks |-> -1, siteArea |-> -1, center |-> <<0, 0>>,
     alignmentAngle |-> 0, working |-> {}, bbox |-> <<0, 0, 0, 0>>,
     workingConstraints |-> <<>>]

noLoop == [i |-> 0, j |-> 0, colCounter |-> 0, rowCounter |-> 0]

noBlock ==
    [idx |-> 0, finalBlock |-> {}, processedBlock |-> {}, zones |-> <<>>,
     lotsGeneratedInBlock |-> 0, caught |-> FALSE]

\* no call of fillParkWithTrees is running
noPlanting ==
    [pc |-> "idle", parkPoly |-> {}, parkId |-> 0, searchPoly |-> Null,
     placedTrees |-> <<>>, attempts |-> 0]

\* displayGeometry is not cutting
noLayer == [pc |-> "idle"]

\* the App is not mounted
noApp == [pc |-> "idle"]

\* the MapCanvas is not mounted
noCanvas == [pc |-> "idle"]

noAccess ==
    [found |-> <<>>, uniqueCandidates |-> <<>>, accessControlData |-> Null,
     perimeterWalls |-> <<>>]

Init ==
    /\ \E input \in Inputs : points = input[1] /\ config = input[2]
    /\ parkPercentage = Unread
    /\ entryIndex = Unread
    /\ constraints \in ConstraintLists
    /\ seed \in Seeds
    /\ calls = 0
    /\ pc = "start"
    /\ faults = 0
    /\ unexpected = FALSE
    /\ thrown = "none"
    /\ ran = {}
    /\ site = noSite
    /\ gridInfo = <<>>
    /\ loop = noLoop
    /\ temp = emptyTemp
    /\ block = noBlock
    /\ globalLotIndex = 0
    /\ final = emptyTemp
    /\ access = noAccess
    /\ result = Null
    /\ earlier = Null
    /\ planting = noPlanting
    /\ layer = noLayer
    /\ app = noApp
    /\ canvas = noCanvas

\* ------------------------------------------------------------------------
\* Failures of library operations
\* ------------------------------------------------------------------------

\* the failures that may still be injected; a call the application makes
\* after the first one runs without failures
FaultsLeft == IF earlier = Null THEN MaxFaults - faults ELSE 0

\* one more failure may be injected
MayFail == FaultsLeft > 0

\* a faulty TopHandler: the try of line 78 ends before the gate is built,
\* whose exceptions leave generateBuilding
HandlerBeforeGate(stage) == IF stage = "gate" THEN "escaped" ELSE "catch"

\* the handler an exception thrown by a statement of the top-level
\* pipeline reaches: every such statement is inside the try of line 78
TopHandler(stage) == "catch"

\* the locals of the call are gone once an exception unwinds to the
\* top-level handler
Unwind ==
    /\ site' = noSite
    /\ gridInfo' = <<>>
    /\ loop' = noLoop
    /\ temp' = emptyTemp
    /\ block' = noBlock
    /\ globalLotIndex' = 0
    /\ final' = emptyTemp
    /\ access' = noAccess

\* an exception with the given message leaves the given stage
Throw(stage, message) ==
    /\ thrown' = message
    /\ pc' = TopHandler(stage)
    /\ ran' = ran \cup {stage}
    /\ Unwind
    /\ UNCHANGED <<result, calls>>

\* an operation the code does not wrap throws at the given stage
ThrowsUnexpected(stage) ==
    /\ MayFail
    /\ faults' = faults + 1
    /\ unexpected' = TRUE
    /\ Throw(stage, "library")

\* the stage runs without a failure and goes on to the statement next
Goes(stage, next) ==
    /\ pc' = next
    /\ ran' = ran \cup {stage}
    /\ UNCHANGED <<faults, unexpected, thrown, result, calls>>

\* ------------------------------------------------------------------------
\* generateBuilding: validation
\* ------------------------------------------------------------------------

Return(stage, geometry, stats) ==
    /\ result' = Some([geometry |-> geometry, stats |-> stats])
    /\ pc' = "done"
    /\ ran' = ran \cup {stage}
    /\ UNCHANGED calls

\* line 74: fewer than three points
Start ==
    /\ pc = "start"
    /\ IF Len(points) < MinPoints
       THEN Return("start", emptyGeometry, emptyStats)
       ELSE pc' = "normalize" /\ ran' = ran \cup {"start"} /\ UNCHANGED <<result, calls>>
    /\ UNCHANGED <<apart, args, earlier, faults, unexpected, thrown, locals>>

\* a faulty Pushed: coordinates is the caller's array itself
Aliased(pts, coordinates) == coordinates

\* lines 79-87: the caller's array after coordinates.push; coordinates is
\* the array points.map made, so the push does not reach the caller's
Pushed(pts, coordinates) == pts

\* lines 79-97: close the ring, build the polygon, clean and rewind it
Normalize ==
    /\ pc = "normalize"
    /\ LET coordinates == CloseRing(points)
       IN /\ points' = Pushed(points, coordinates)
          /\ \/ /\ PolygonThrows(coordinates)
                /\ Throw("normalize", "polygon")
                /\ UNCHANGED <<faults, unexpected>>
             \/ /\ ~PolygonThrows(coordinates)
                /\ site' = [site EXCEPT !.ring = rewind(cleanCoords(coordinates))]
                /\ Goes("normalize", "kinks")
                /\ UNCHANGED <<gridInfo, loop, temp, block, globalLotIndex, final, access>>
             \/ /\ ~PolygonThrows(coordinates)
                /\ ThrowsUnexpected("normalize")
             \/ \* cleanCoords hands back something that is no polygon
                /\ ~PolygonThrows(coordinates)
                /\ MayFail
                /\ faults' = faults + 1
                /\ Return("normalize",
                          [emptyGeometry EXCEPT !.error = ErrInvalidGeometry], emptyStats)
                /\ UNCHANGED <<unexpected, thrown, locals>>
    /\ UNCHANGED <<apart, config, parkPercentage, entryIndex, constraints, seed, earlier>>

\* a faulty IsSelfIntersecting: a boundary with a single kink is let through
RepeatedKinks(k) == k > 1

\* line 100: kinks.features.length > 0
IsSelfIntersecting(k) == k > 0

\* lines 99-110: a self-intersecting boundary is rejected
Kinks ==
    /\ pc = "kinks"
    /\ \/ /\ LET k == Cardinality(kinks(site.ring))
             IN /\ site' = [site EXCEPT !.kinks = k]
                /\ IF IsSelfIntersecting(k)
                   THEN Return("kinks",
                               [emptyGeometry EXCEPT !.siteBoundary = site.ring,
                                                     !.isValid = FALSE,
                                                     !.error = ErrSelfIntersect],
                               emptyStats)
                   ELSE pc' = "area" /\ ran' = ran \cup {"kinks"} /\ UNCHANGED <<result, calls>>
          /\ UNCHANGED <<faults, unexpected, thrown, gridInfo, loop, temp, block,
                         globalLotIndex, final, access>>
       \/ ThrowsUnexpected("kinks")
    /\ UNCHANGED <<apart, args, earlier>>

\* a faulty IsTooSmall: only a boundary without area is rejected
NoArea(siteArea) == siteArea <= 0

\* line 113: siteArea < 100
IsTooSmall(siteArea) == siteArea < MinSiteArea

\* lines 112-113: a boundary of less than 100 square metres throws
AreaCheck ==
    /\ pc = "area"
    /\ LET siteArea == RingArea(site.ring)
       IN \/ /\ IsTooSmall(siteArea)
             /\ Throw("area", "Area too small")
             /\ UNCHANGED <<faults, unexpected>>
          \/ /\ ~IsTooSmall(siteArea)
             /\ site' = [site EXCEPT !.siteArea = siteArea]
             /\ Goes("area", "align")
             /\ UNCHANGED <<gridInfo, loop, temp, block, globalLotIndex, final, access>>
          \/ ThrowsUnexpected("area")
    /\ UNCHANGED <<apart, args, earlier>>

\* lines 718-720: the handler of the top-level try
Catch ==
    /\ pc = "catch"
    /\ Return("catch", [emptyGeometry EXCEPT !.error = ErrCalculationFailed], emptyStats)
    /\ UNCHANGED <<apart, args, earlier, faults, unexpected, thrown, locals>>

\* ------------------------------------------------------------------------
\* generateBuilding: alignment and block grid
\* ------------------------------------------------------------------------

\* lines 132-139: sizes of the grid in lattice units
blockDepthDeg == ToUnits(config.lotDepth * 2)

targetBlockWidthDeg == ToUnits(config.lotWidth * lotsPerBlockRow)

roadWidthDegX == ToUnits(config.roadWidth)

roadWidthDegY == ToUnits(config.roadWidth)

xStep == targetBlockWidthDeg + roadWidthDegX

yStep == blockDepthDeg + roadWidthDegY

\* lines 152-159: the grid is centred on the bounding box bb
numCols(bb) == CeilDiv(bb[3] - bb[1], xStep)

numRows(bb) == CeilDiv(bb[4] - bb[2], yStep)

startX(bb) == bb[1] + ((bb[3] - bb[1]) - numCols(bb) * xStep) \div 2

startY(bb) == bb[2] + ((bb[4] - bb[2]) - numRows(bb) * yStep) \div 2

\* lines 167-173: the cell of the grid at column i, row j
CellBox(i, j, bb) ==
    Box(startX(bb) + i * xStep, startY(bb) + j * yStep,
        startX(bb) + i * xStep + targetBlockWidthDeg,
        startY(bb) + j * yStep + blockDepthDeg)

\* turf.booleanIntersects of a cell with the parcel: sharing a boundary
\* point counts
booleanIntersects(b, S) ==
    ClipToBox(S, <<b[1] - 1, b[2] - 1, b[3] + 1, b[4] + 1>>) # {}

\* the grid loop of lines 165-201 over the working polygon S with bounding
\* box bb: l holds i, j, colCounter and rowCounter
GridDone(l, bb) ==
    l.i >= numCols(bb) + bufferCols

\* the for statements step to the next cell; rowCounter is incremented at
\* the end of the loop body, which a continue skips
StepLoop(l, bb, countRow) ==
    IF l.j + 1 < numRows(bb) + bufferRows
    THEN [l EXCEPT !.j = l.j + 1,
                   !.rowCounter = IF countRow THEN l.rowCounter + 1 ELSE l.rowCounter]
    ELSE [i |-> l.i + 1, j |-> -bufferRows, colCounter |-> l.colCounter + 1,
          rowCounter |-> 0]

\* the iterations over cells that do not meet the parcel do nothing but
\* count: they are run together with the iteration before them
RECURSIVE SkipIdle(_, _, _)
SkipIdle(l, bb, S) ==
    IF GridDone(l, bb) \/ booleanIntersects(CellBox(l.i, l.j, bb), S) THEN l
    ELSE SkipIdle(StepLoop(l, bb, TRUE), bb, S)

\* lines 114-139: centre, principal axis, rotation into the working frame
Align ==
    /\ pc = "align"
    /\ \/ LET center == RingCenter(site.ring)
              alignmentAngle == getPrincipalAxis(site.ring)
              workingRing == RotateRing(site.ring, -alignmentAngle, center)
              first == SkipIdle([i |-> -bufferCols, j |-> -bufferRows,
                                 colCounter |-> 0, rowCounter |-> 0],
                                RingBbox(workingRing), RingRegion(workingRing))
          IN /\ site' = [site EXCEPT
                    !.center = center,
                    !.alignmentAngle = alignmentAngle,
                    !.working = RingRegion(workingRing),
                    !.bbox = RingBbox(workingRing),
                    !.workingConstraints =
                        [n \in 1..Len(constraints) |->
                            [type |-> constraints[n].type,
                             localPos |-> RotateAtomQ(constraints[n].position,
                                                      Quarter(-alignmentAngle), center)]]]
             /\ loop' = first
             /\ Goes("align", IF GridDone(first, RingBbox(workingRing))
                              THEN "classify" ELSE "grid")
             /\ UNCHANGED <<gridInfo, temp, block, globalLotIndex, final, access>>
       \/ ThrowsUnexpected("align")
    /\ UNCHANGED <<apart, args, earlier>>

\* the loop goes on after the cell at hand
NextCell(countRow) ==
    LET next == SkipIdle(StepLoop(loop, site.bbox, countRow), site.bbox, site.working)
    IN /\ loop' = next
       /\ pc' = IF GridDone(next, site.bbox) THEN "classify" ELSE "grid"
       /\ ran' = ran \cup {"grid"}
       /\ UNCHANGED <<thrown, result, calls, site, temp, block, globalLotIndex, final,
                      access>>

\* the cell pushed at line 186
NewCell(poly, b) ==
    [poly |-> poly, type |-> "unknown", col |-> loop.colCounter,
     row |-> loop.rowCounter, originalBbox |-> b]

\* lines 165-201: one iteration of the inner loop, at a cell that meets
\* the parcel
GridCell ==
    /\ pc = "grid"
    /\ LET b == CellBox(loop.i, loop.j, site.bbox)
           intersection == ClipToBox(site.working, b)
       IN \/ \* turf.intersect succeeds; it is null for a cell that only touches
             /\ gridInfo' = IF intersection # {} /\ Area(intersection) > MinCellArea
                            THEN Append(gridInfo, NewCell(intersection, b))
                            ELSE gridInfo
             /\ NextCell(TRUE)
             /\ UNCHANGED <<faults, unexpected>>
          \/ \* turf.intersect returns null
             /\ MayFail
             /\ faults' = faults + 1
             /\ NextCell(TRUE)
             /\ UNCHANGED <<gridInfo, unexpected>>
          \/ \* turf.intersect throws: catch (err) { continue; }
             /\ MayFail
             /\ faults' = faults + 1
             /\ NextCell(FALSE)
             /\ UNCHANGED <<gridInfo, unexpected>>
          \/ \* bboxPolygon or booleanIntersects throws
             ThrowsUnexpected("grid")
    /\ UNCHANGED <<apart, args, earlier>>

\* ------------------------------------------------------------------------
\* generateBuilding: park / residential classification
\* ------------------------------------------------------------------------

\* Array.prototype.sort is stable: e goes before the first element it
\* strictly precedes
InsertStable(s, e, Before(_, _)) ==
    LET k == IF \E n \in 1..Len(s) : Before(e, s[n])
             THEN SetMin({n \in 1..Len(s) : Before(e, s[n])})
             ELSE Len(s) + 1
    IN SubSeq(s, 1, k - 1) \o <<e>> \o SubSeq(s, k, Len(s))

SortStable(s, Before(_, _)) ==
    LET F[n \in 0..Len(s)] ==
            IF n = 0 THEN <<>> ELSE InsertStable(F[n - 1], s[n], Before)
    IN F[Len(s)]

LargerFirst(a, b) == Area(a.poly) > Area(b.poly)

\* a faulty SmallerFirst: the cells left for the quota keep the order of
\* line 219
LargestStay(a, b) == Area(a.poly) > Area(b.poly)

SmallerFirst(a, b) == Area(a.poly) < Area(b.poly)

FilterSeq(s, Keep(_)) ==
    LET F[n \in 0..Len(s)] ==
            IF n = 0 THEN <<>>
            ELSE IF Keep(s[n]) THEN Append(F[n - 1], s[n]) ELSE F[n - 1]
    IN F[Len(s)]

\* lines 204-212: a cell that holds a park anchor is a park
isForcedPark(cell) ==
    \E n \in 1..Len(site.workingConstraints) :
        /\ site.workingConstraints[n].type = "PARK_ANCHOR"
        /\ site.workingConstraints[n].localPos \in cell.poly

\* a faulty ForceParks: the anchors are not looked at
ForceNone(cells) == cells

\* lines 204-212
ForceParks(cells) ==
    [n \in 1..Len(cells) |->
        IF isForcedPark(cells[n]) THEN [cells[n] EXCEPT !.type = "park"] ELSE cells[n]]

IsUnknown(cell) == cell.type = "unknown"

IsPark(cell) == cell.type = "park"

IsNotPark(cell) == cell.type # "park"

CellAreas(cells) == [n \in 1..Len(cells) |-> Area(cells[n].poly)]

\* a faulty AssignQuota: the comparison with the target is the wrong way
\* round
RECURSIVE QuotaMet(_, _, _, _)
QuotaMet(potentialParks, currentParkArea, totalBlockArea, pct) ==
    IF potentialParks = <<>> THEN <<>>
    ELSE LET cell == Head(potentialParks)
         IN IF currentParkArea * 100 >= totalBlockArea * pct
            THEN <<[cell EXCEPT !.type = "park"]>>
                 \o QuotaMet(Tail(potentialParks),
                             currentParkArea + Area(cell.poly), totalBlockArea, pct)
            ELSE <<[cell EXCEPT !.type = "residential"]>>
                 \o QuotaMet(Tail(potentialParks), currentParkArea, totalBlockArea, pct)

\* lines 226-233: the smallest cells become parks while the park area is
\* below the target, parkPercentage percent of the total cell area
RECURSIVE AssignQuota(_, _, _, _)
AssignQuota(potentialParks, currentParkArea, totalBlockArea, pct) ==
    IF potentialParks = <<>> THEN <<>>
    ELSE LET cell == Head(potentialParks)
         IN IF currentParkArea * 100 < totalBlockArea * pct
            THEN <<[cell EXCEPT !.type = "park"]>>
                 \o AssignQuota(Tail(potentialParks),
                                currentParkArea + Area(cell.poly), totalBlockArea, pct)
            ELSE <<[cell EXCEPT !.type = "residential"]>>
                 \o AssignQuota(Tail(potentialParks), currentParkArea, totalBlockArea, pct)

\* lines 204-238 on the list of cells, for config.parkPercentage = pct
ClassifyCells(cells, pct) ==
    LET forced == ForceParks(cells)
        totalBlockArea == SumSeq(CellAreas(forced))
        currentParkArea == SumSeq(CellAreas(FilterSeq(forced, IsPark)))
        sorted == SortStable(forced, LargerFirst)
        potentialParks == SortStable(FilterSeq(sorted, IsUnknown), SmallerFirst)
        assigned == AssignQuota(potentialParks, currentParkArea, totalBlockArea, pct)
        TypeOf(cell) ==
            IF \E n \in 1..Len(assigned) : assigned[n].poly = cell.poly
            THEN (CHOOSE a \in SeqToSet(assigned) : a.poly = cell.poly).type
            ELSE cell.type
    IN [n \in 1..Len(sorted) |-> [sorted[n] EXCEPT !.type = TypeOf(sorted[n])]]

\* lines 204-238
Classify ==
    /\ pc = "classify"
    /\ \/ /\ \E p \in ParkPercentages :
                /\ earlier # Null => p >= earlier[1].parkPercentage
                /\ parkPercentage' = p
                /\ gridInfo' = ClassifyCells(gridInfo, p)
          /\ Goes("classify", IF FilterSeq(gridInfo', IsNotPark) = <<>>
                               THEN "parks" ELSE "block")
          /\ UNCHANGED <<site, loop, temp, block, globalLotIndex, final, access>>
       \/ /\ ThrowsUnexpected("classify")
          /\ UNCHANGED parkPercentage
    /\ UNCHANGED <<apart, points, config, entryIndex, constraints, seed, earlier>>

\* a faulty parkBlocks: the filter of line 278 is left out
everyBlock == gridInfo

\* line 278
parkBlocks == FilterSeq(gridInfo, IsPark)

\* line 279
residentialBlocks == FilterSeq(gridInfo, IsNotPark)

\* ------------------------------------------------------------------------
\* generateBuilding: residential blocks
\* ------------------------------------------------------------------------

\* the atoms that share an edge with the atom a
Neighbours(a) ==
    {<<a[1] - 1, a[2]>>, <<a[1] + 1, a[2]>>, <<a[1], a[2] - 1>>, <<a[1], a[2] + 1>>}

\* the part of S connected to the atoms of C, which was last grown by the
\* atoms of front
RECURSIVE Grow(_, _, _)
Grow(C, front, S) ==
    LET more == ((UNION {Neighbours(a) : a \in front}) \cap S) \ C
    IN IF more = {} THEN C ELSE Grow(C \cup more, more, S)

\* the first atom of a region, by column and then by row
FirstAtom(S) ==
    CHOOSE a \in S : \A b \in S : a[1] < b[1] \/ (a[1] = b[1] /\ a[2] <= b[2])

\* lines 320-322: the polygons of a Polygon or MultiPolygon
RECURSIVE Polygons(_)
Polygons(S) ==
    IF S = {} THEN <<>>
    ELSE LET c == Grow({FirstAtom(S)}, {FirstAtom(S)}, S)
         IN <<c>> \o Polygons(S \ c)

\* line 313
targetLotArea == config.lotWidth * config.lotDepth

\* lines 341-351: the candidate lots of a zone; the slice skip fails
RECURSIVE Slices(_, _, _, _, _)
Slices(zone, zoneBox, numLots, k, skip) ==
    IF k >= numLots THEN <<>>
    ELSE LET sliceWidthDeg == (zoneBox[3] - zoneBox[1]) \div numLots
             sliceStart == zoneBox[1] + k * sliceWidthDeg
             sliceEnd == IF k = numLots - 1 THEN zoneBox[3] ELSE sliceStart + sliceWidthDeg
             lotShape == ClipToBox(zone, Box(sliceStart, zoneBox[2], sliceEnd, zoneBox[4]))
         IN (IF lotShape # {} /\ k + 1 # skip THEN <<lotShape>> ELSE <<>>)
            \o Slices(zone, zoneBox, numLots, k + 1, skip)

\* lines 333-335
NumLots(zoneBox) ==
    Max2(1, ((zoneBox[3] - zoneBox[1]) * UnitM) \div config.lotWidth)

\* a faulty WorstIdx: only lots below half of the target area are looked for
WorstBelowHalf(mergedLots) ==
    LET small == {i \in 1..Len(mergedLots) : 2 * Area(mergedLots[i]) < targetLotArea}
    IN IF small = {} THEN 0
       ELSE SetMin({i \in small :
                       \A n \in small : Area(mergedLots[i]) <= Area(mergedLots[n])})

\* lines 363-374: the index of the smallest lot below 75 % of the target
\* area, the first of them on a tie; 0 when there is none
WorstIdx(mergedLots) ==
    LET small == {i \in 1..Len(mergedLots) : 4 * Area(mergedLots[i]) < 3 * targetLotArea}
    IN IF small = {} THEN 0
       ELSE SetMin({i \in small :
                       \A n \in small : Area(mergedLots[i]) <= Area(mergedLots[n])})

\* a faulty TargetIdx: on equal areas the left neighbour is taken
TargetLeftOnTie(mergedLots, worstIdx) ==
    LET mergeLeft == worstIdx > 1
        mergeRight == worstIdx < Len(mergedLots)
    IN IF mergeLeft /\ ~mergeRight THEN worstIdx - 1
       ELSE IF mergeRight /\ ~mergeLeft THEN worstIdx + 1
       ELSE IF mergeLeft /\ mergeRight
            THEN IF Area(mergedLots[worstIdx - 1]) <= Area(mergedLots[worstIdx + 1])
                 THEN worstIdx - 1 ELSE worstIdx + 1
            ELSE 0

\* lines 378-388: the neighbour to merge with; 0 when there is none
TargetIdx(mergedLots, worstIdx) ==
    LET mergeLeft == worstIdx > 1
        mergeRight == worstIdx < Len(mergedLots)
    IN IF mergeLeft /\ ~mergeRight THEN worstIdx - 1
       ELSE IF mergeRight /\ ~mergeLeft THEN worstIdx + 1
       ELSE IF mergeLeft /\ mergeRight
            THEN IF Area(mergedLots[worstIdx - 1]) < Area(mergedLots[worstIdx + 1])
                 THEN worstIdx - 1 ELSE worstIdx + 1
            ELSE 0

\* a faulty Splice: one more element is removed
SpliceMore(s, at, count, items) ==
    SubSeq(s, 1, at - 1) \o items \o SubSeq(s, at + count + 1, Len(s))

\* splice(at, count, ...items)
Splice(s, at, count, items) ==
    SubSeq(s, 1, at - 1) \o items \o SubSeq(s, at + count, Len(s))

\* lines 357-412: one pass of the body of the merge loop over mergedLots;
\* fails: turf.union returns null or throws in this pass. unions is the
\* number of calls of turf.union the pass makes
MergePass(mergedLots, fails) ==
    LET worstIdx == WorstIdx(mergedLots)
        targetIdx == TargetIdx(mergedLots, worstIdx)
        idxA == Min2(worstIdx, targetIdx)
        idxB == Max2(worstIdx, targetIdx)
        Ends == [lots |-> mergedLots, keepMerging |-> FALSE,
                 unions |-> IF worstIdx # 0 /\ targetIdx # 0 THEN 1 ELSE 0]
    IN IF worstIdx = 0 THEN Ends
       ELSE IF targetIdx # 0
            THEN IF fails THEN Ends
                 ELSE [lots |-> Splice(mergedLots, idxA, 2,
                                       <<mergedLots[idxA] \cup mergedLots[idxB]>>),
                       keepMerging |-> TRUE, unions |-> 1]
            ELSE IF 5 * Area(mergedLots[worstIdx]) < 2 * targetLotArea
                 THEN [lots |-> Splice(mergedLots, worstIdx, 1, <<>>),
                       keepMerging |-> TRUE, unions |-> 0]
                 ELSE Ends

\* lines 356-413: the passes the merge loop makes from mergedLots, each with
\* the list it starts with, the list it leaves and the flag it leaves; the
\* call of turf.union numbered failAt returns null or throws, unions counts
\* the calls made so far
RECURSIVE MergeRun(_, _, _)
MergeRun(mergedLots, unions, failAt) ==
    IF Len(mergedLots) = 0 THEN <<>>
    ELSE LET pass == MergePass(mergedLots, unions + 1 = failAt)
         IN <<[before |-> mergedLots, after |-> pass.lots,
               keepMerging |-> pass.keepMerging]>>
            \o (IF pass.keepMerging
                THEN MergeRun(pass.lots, unions + pass.unions, failAt)
                ELSE <<>>)

\* lines 356-413: the list the merge loop ends with
MergeLoop(mergedLots, unions, failAt) ==
    LET run == MergeRun(mergedLots, unions, failAt)
    IN IF Len(run) = 0 THEN mergedLots ELSE run[Len(run)].after

\* a faulty Surviving: a draw of Math.random decides whether the lots of a
\* band are kept
DrawnLots(mergedLots) == IF IsAbove(0) THEN <<>> ELSE mergedLots

\* lines 416-418: the lots that survive the last area check
Surviving(mergedLots) ==
    LET F[n \in 0..Len(mergedLots)] ==
            IF n = 0 THEN <<>>
            ELSE IF Area(mergedLots[n]) < MinLotArea THEN F[n - 1]
                 ELSE Append(F[n - 1], mergedLots[n])
    IN F[Len(mergedLots)]

\* lines 448-459: the atom that holds the tree point of a lot
TreeAtom(lotShape, isBottom, isLeft) ==
    LET lotBbox == RegionBbox(lotShape)
    IN <<IF isLeft THEN lotBbox[1] ELSE lotBbox[3] - 1,
         IF isBottom THEN lotBbox[2] ELSE lotBbox[4] - 1>>

\* a faulty Lot: the id is not the running index
LotUnnumbered(poly, id, isBottom) == [poly |-> poly, lotId |-> 0, isBottomRow |-> isBottom]

\* the lot, building and tree records
Lot(poly, id, isBottom) == [poly |-> poly, lotId |-> id, isBottomRow |-> isBottom]

Building(id) == [lotId |-> id]

LotTree(id, atom) == [lotId |-> Some(id), parkId |-> Null, at |-> Some(atom)]

ParkTree(id) == [lotId |-> Null, parkId |-> Some(id), at |-> Null]

\* lines 416-462 on the surviving lots, starting from the running state
\* st = [lots, buildings, trees, g, count, calls, threw]: noBuilding is
\* the lot whose building is not made, throwAt is the lot at which an
\* unwrapped operation throws right after the lot is pushed (0: never).
\* Math.random is called for the depth of the building, for its height and
\* colour when it is made, and for the side of the tree
GenerateLots(st, shapes, isBottom, noBuilding, throwAt) ==
    LET F[n \in 0..Len(shapes)] ==
            IF n = 0 THEN st
            ELSE LET prev == F[n - 1]
                     id == prev.g
                     drawn == prev.calls + (IF n = noBuilding THEN 1 ELSE 3)
                     isLeft == IsAbove(drawn)
                     atom == TreeAtom(shapes[n], isBottom, isLeft)
                 IN IF prev.threw THEN prev
                    ELSE IF n = throwAt
                    THEN [prev EXCEPT !.lots = Append(@, Lot(shapes[n], id, isBottom)),
                                      !.count = @ + 1,
                                      !.threw = TRUE]
                    ELSE [lots |-> Append(prev.lots, Lot(shapes[n], id, isBottom)),
                          buildings |-> IF n = noBuilding THEN prev.buildings
                                        ELSE Append(prev.buildings, Building(id)),
                          trees |-> IF atom \in shapes[n]
                                    THEN Append(prev.trees, LotTree(id, atom))
                                    ELSE prev.trees,
                          g |-> id + 1,
                          count |-> prev.count + 1,
                          calls |-> drawn + 1,
                          threw |-> FALSE]
    IN F[Len(shapes)]

\* lines 330-351: the candidate lots of one polygon of a zone; the
\* intersect of the slice numbered skip fails (0: none)
candidateLots(zone, skip) ==
    LET zoneBox == RegionBbox(zone)
    IN Slices(zone, zoneBox, NumLots(zoneBox), 0, skip)

\* the lots of one polygon of a zone after slicing and merging
MergedLots(zone, skip, failAt) ==
    IF 2 * Area(zone) < targetLotArea THEN <<>>
    ELSE Surviving(MergeLoop(candidateLots(zone, skip), 0, failAt))

\* the statement after the block numbered idx
AfterBlock(idx) == IF idx < Len(residentialBlocks) THEN "block" ELSE "parks"

\* lines 293-311: the road strips below and above the cell are cut off the
\* block where the parcel reaches into them
Carved(processedBlock, originalBbox, S) ==
    LET bottomRoadBox == Box(originalBbox[1], originalBbox[2] - roadWidthDegY,
                             originalBbox[3], originalBbox[2])
        topRoadBox == Box(originalBbox[1], originalBbox[4],
                          originalBbox[3], originalBbox[4] + roadWidthDegY)
        Cut(P, b) ==
            IF ClipToBox(S, b) # {} /\ P \ ClipToBox(P, b) # {}
            THEN P \ ClipToBox(P, b) ELSE P
    IN Cut(Cut(processedBlock, bottomRoadBox), topRoadBox)

\* lines 467-473: the polygons of the bottom and of the top band
Zones(processedBlock, originalBbox) ==
    LET gridMidY == originalBbox[2] + (originalBbox[4] - originalBbox[2]) \div 2
        bottomBand == Box(originalBbox[1], originalBbox[2], originalBbox[3], gridMidY)
        topBand == Box(originalBbox[1], gridMidY, originalBbox[3], originalBbox[4])
        bottomZone == Polygons(ClipToBox(processedBlock, bottomBand))
        topZone == Polygons(ClipToBox(processedBlock, topBand))
    IN [n \in 1..Len(bottomZone) |-> [poly |-> bottomZone[n], isBottom |-> TRUE]]
       \o [n \in 1..Len(topZone) |-> [poly |-> topZone[n], isBottom |-> FALSE]]

\* what goes wrong while one polygon of a zone is processed: nothing, the
\* intersect of its first slice, its first union, the intersect of its
\* first building, or an unwrapped operation that throws before the first
\* lot or right after the first lot is pushed
ZonePlans == {"none", "slice", "union", "building", "throwEarly", "throwLate"}

\* what goes wrong in the rest of a block's iteration: nothing, an
\* operation of the carving, the intersect of a band, turf.area at line
\* 479, or fillParkWithTrees
BlockPlans == {"none", "carve", "bands", "area", "fill"}

\* the lots of a polygon of a zone under a plan
PlannedLots(zone, plan) ==
    MergedLots(zone.poly, IF plan = "slice" THEN 1 ELSE 0, IF plan = "union" THEN 1 ELSE 0)

\* lines 470-471: processZone on the zones of a block one after the
\* other, from the running state st, until one of them throws; shapes are
\* the lots of each zone after slicing and merging
ProcessZones(st, zones, shapes, plans) ==
    LET F[n \in 0..Len(zones)] ==
            IF n = 0 THEN st
            ELSE LET prev == F[n - 1]
                 IN IF prev.threw THEN prev
                    ELSE IF plans[n] = "throwEarly" THEN [prev EXCEPT !.threw = TRUE]
                    ELSE GenerateLots(prev, shapes[n], zones[n].isBottom,
                                      IF plans[n] = "building" THEN 1 ELSE 0,
                                      IF plans[n] = "throwLate" THEN 1 ELSE 0)
    IN F[Len(zones)]

\* the number of failures of a plan for a block
PlanFaults(blockPlan, plans) ==
    (IF blockPlan = "none" THEN 0 ELSE 1)
    + Cardinality({n \in 1..Len(plans) : plans[n] # "none"})

\* the plan names failures that can happen, and can happen together: a
\* union fails only where one is made, a building or a lot only where a lot
\* is made, a zone after a throw is not processed, and lines 475-486 are
\* not reached after a throw; nominal are the lots when nothing fails
PlanFits(blockPlan, plans, shapes, nominal) ==
    /\ \A n \in 1..Len(plans) :
          /\ plans[n] = "union" => shapes[n] # nominal[n]
          /\ plans[n] \in {"building", "throwLate"} => nominal[n] # <<>>
    /\ \A n, k \in 1..Len(plans) :
          n < k /\ plans[n] \in {"throwEarly", "throwLate"} => plans[k] = "none"
    /\ blockPlan = "bands" => \A n \in 1..Len(plans) : plans[n] = "none"
    /\ blockPlan \in {"area", "fill"} =>
          \A n \in 1..Len(plans) : plans[n] \notin {"throwEarly", "throwLate"}

\* the plan holds a throw of an operation the code does not wrap
PlanUnexpected(blockPlan, plans) ==
    \/ blockPlan \in {"area", "fill"}
    \/ \E n \in 1..Len(plans) : plans[n] \in {"throwEarly", "throwLate"}

\* lines 248-252: the number of trees a park asks for
actualTarget(parkPoly) == Min2(Max2(3, Area(parkPoly) \div 40), 500)

\* a park polygon with its id
Park(poly, parkId) == [poly |-> poly, parkId |-> parkId]

\* lines 247-276: the trees placed in a park; the random placement ends
\* with every tree placed or with none, by the draw it starts with
PlacedTrees(parkPoly, parkId, n) ==
    IF IsAbove(n) THEN [k \in 1..actualTarget(parkPoly) |-> ParkTree(parkId)] ELSE <<>>

\* a faulty TreeCalls: fillParkWithTrees is not called
NoTreeCalls(parkPoly, n) == 0

\* the calls of Math.random fillParkWithTrees makes: two for each attempt
TreeCalls(parkPoly, n) ==
    2 * actualTarget(parkPoly) * (IF IsAbove(n) THEN 1 ELSE 15)

\* lines 281-488: one iteration of residentialBlocks.forEach, from the
\* lists t, the lot index g and n calls of Math.random
BlockOutcome(t, g, n, finalBlock, processedBlock, zones, shapes, blockPlan, plans) ==
    LET st == ProcessZones([lots |-> t.lots, buildings |-> t.buildings,
                            trees |-> t.trees, g |-> g, count |-> 0, calls |-> n,
                            threw |-> FALSE],
                           zones, shapes, plans)
        made == [t EXCEPT !.lots = st.lots, !.buildings = st.buildings,
                          !.trees = st.trees]
        parkIndex == Len(made.parks)
        asPark == [made EXCEPT !.parks = Append(@, Park(processedBlock, parkIndex)),
                               !.superblocks = Append(@, processedBlock)]
        seeded == [asPark EXCEPT
                      !.trees = @ \o PlacedTrees(processedBlock, parkIndex, st.calls)]
        reached == IF blockPlan = "bands" THEN t
                   ELSE IF st.threw \/ blockPlan = "area" THEN made
                   ELSE asPark
        caught == [reached EXCEPT !.superblocks = Append(@, finalBlock)]
        substantial == Area(processedBlock) > MinParkBlockArea
        becomesPark == /\ blockPlan \notin {"bands", "area", "fill"}
                       /\ ~st.threw /\ st.count = 0 /\ substantial
    IN [about |-> [idx |-> 0, finalBlock |-> finalBlock,
                   processedBlock |-> processedBlock, zones |-> zones,
                   lotsGeneratedInBlock |-> st.count,
                   caught |-> blockPlan \in {"bands", "area", "fill"} \/ st.threw],
        g |-> IF blockPlan = "bands" THEN g ELSE st.g,
        calls |-> IF blockPlan = "bands" THEN n
                  ELSE IF becomesPark THEN st.calls + TreeCalls(processedBlock, st.calls)
                  ELSE st.calls,
        fits |-> /\ blockPlan = "area" => st.count = 0
                 /\ blockPlan = "fill" => st.count = 0 /\ substantial,
        temp |->
            IF blockPlan = "bands" \/ st.threw THEN caught
            ELSE IF st.count > 0
                 THEN [made EXCEPT !.superblocks = Append(@, processedBlock)]
            ELSE IF blockPlan \in {"area", "fill"} THEN caught
            ELSE IF substantial THEN seeded
            ELSE made]

\* lines 281-488: the iteration of residentialBlocks.forEach on the next
\* residential cell
Block ==
    /\ pc = "block"
    /\ \/ \E blockPlan \in BlockPlans :
          \E cell \in {residentialBlocks[block.idx + 1]} :
          \E processedBlock \in {IF blockPlan = "carve" THEN cell.poly
                                 ELSE Carved(cell.poly, cell.originalBbox, site.working)} :
          \E zones \in {Zones(processedBlock, cell.originalBbox)} :
             LET LotsUnder(ps) == [n \in 1..Len(zones) |-> PlannedLots(zones[n], ps[n])]
             IN \E nominal \in {LotsUnder([n \in 1..Len(zones) |-> "none"])} :
                \E plans \in [1..Len(zones) -> ZonePlans] :
                   /\ PlanFaults(blockPlan, plans) <= FaultsLeft
                   /\ \E shapes \in {LotsUnder(plans)} :
                         /\ PlanFits(blockPlan, plans, shapes, nominal)
                         /\ \E out \in {BlockOutcome(temp, globalLotIndex, calls, cell.poly,
                                                     processedBlock, zones, shapes,
                                                     blockPlan, plans)} :
                               /\ out.fits
                               /\ temp' = out.temp
                               /\ globalLotIndex' = out.g
                               /\ calls' = out.calls
                               /\ block' = [out.about EXCEPT !.idx = block.idx + 1]
                   /\ faults' = faults + PlanFaults(blockPlan, plans)
                   /\ unexpected' = (unexpected \/ PlanUnexpected(blockPlan, plans))
                   /\ pc' = AfterBlock(block.idx + 1)
                   /\ ran' = ran \cup {"block"}
                   /\ UNCHANGED <<thrown, result, site, gridInfo, loop, final, access>>
       \/ \* cleanCoords or bboxPolygon throws outside the block's try
          ThrowsUnexpected("block")
    /\ UNCHANGED <<apart, args, earlier>>

\* ------------------------------------------------------------------------
\* generateBuilding: park merging
\* ------------------------------------------------------------------------

\* line 493: the park cell stored under the key "col,row"; the last one
\* set under a key wins
ParkAt(col, row) ==
    LET at == {n \in 1..Len(parkBlocks) :
                  parkBlocks[n].col = col /\ parkBlocks[n].row = row}
    IN IF at = {} THEN Null ELSE Some(parkBlocks[SetMax(at)])

\* lines 498-505: the gap between a park cell and the park cell at its right
RightGap(p) ==
    LET right == ParkAt(p.col + 1, p.row)
    IN IF right = Null THEN <<>>
       ELSE <<Box(p.originalBbox[3],
                  Max2(p.originalBbox[2], right[1].originalBbox[2]),
                  right[1].originalBbox[1],
                  Min2(p.originalBbox[4], right[1].originalBbox[4]))>>

\* lines 506-513: the gap between a park cell and the park cell above it
TopGap(p) ==
    LET top == ParkAt(p.col, p.row + 1)
    IN IF top = Null THEN <<>>
       ELSE <<Box(Max2(p.originalBbox[1], top[1].originalBbox[1]),
                  p.originalBbox[4],
                  Min2(p.originalBbox[3], top[1].originalBbox[3]),
                  top[1].originalBbox[2])>>

\* lines 497-514: the gap boxes, in the order they are made
GapBoxes ==
    LET F[n \in 0..Len(parkBlocks)] ==
            IF n = 0 THEN <<>>
            ELSE F[n - 1] \o RightGap(parkBlocks[n]) \o TopGap(parkBlocks[n])
    IN F[Len(parkBlocks)]

\* lines 494-514: the features handed to dissolve; the intersect of the gap
\* numbered skip fails
featuresToMerge(skip) ==
    LET gaps == GapBoxes
        clipped == [n \in 1..Len(gaps) |->
                       IF n = skip THEN {} ELSE ClipToBox(site.working, gaps[n])]
    IN [n \in 1..Len(parkBlocks) |-> parkBlocks[n].poly]
       \o FilterSeq(clipped, LAMBDA g : g # {})

\* turf.dissolve: the connected pieces of the union of the features
Dissolve(features) == Polygons(UNION SeqToSet(features))

\* lines 517-523 and 527-533: each polygon becomes a park and a superblock
\* and is seeded with trees, from the lists and the calls of Math.random
\* of st = [temp, calls]; the polygons after the one numbered stop are not
\* reached and that one is not seeded (0: all are)
PushParks(st, polys, stop) ==
    LET F[n \in 0..Len(polys)] ==
            IF n = 0 THEN st
            ELSE LET pushed == F[n - 1]
                     parkIndex == Len(pushed.temp.parks)
                     asPark == [pushed.temp EXCEPT
                                   !.parks = Append(@, Park(polys[n], parkIndex)),
                                   !.superblocks = Append(@, polys[n])]
                 IN IF stop # 0 /\ n > stop THEN pushed
                    ELSE IF n = stop THEN [pushed EXCEPT !.temp = asPark]
                    ELSE [temp |-> [asPark EXCEPT
                                       !.trees = @ \o PlacedTrees(polys[n], parkIndex,
                                                                  pushed.calls)],
                          calls |-> pushed.calls + TreeCalls(polys[n], pushed.calls)]
    IN F[Len(polys)]

ParkCells == [n \in 1..Len(parkBlocks) |-> parkBlocks[n].poly]

\* the park merging ends with the lists and calls of st
ParksDone(st) ==
    /\ temp' = st.temp
    /\ calls' = st.calls
    /\ pc' = "rotate"
    /\ ran' = ran \cup {"parks"}
    /\ UNCHANGED <<thrown, result>>

\* lines 491-535
ParkMerge ==
    /\ pc = "parks"
    /\ LET st == [temp |-> temp, calls |-> calls]
       IN \/ /\ parkBlocks = <<>>
             /\ ParksDone(st)
             /\ UNCHANGED <<faults, unexpected>>
          \/ \* the parks are merged
             /\ parkBlocks # <<>>
             /\ \E pushed \in {PushParks(st, Dissolve(featuresToMerge(0)), 0)} :
                   ParksDone(pushed)
             /\ UNCHANGED <<faults, unexpected>>
          \/ \* the intersect of the first gap fails: the gap is not filled
             /\ GapBoxes # <<>>
             /\ MayFail
             /\ faults' = faults + 1
             /\ \E pushed \in {PushParks(st, Dissolve(featuresToMerge(1)), 0)} :
                   ParksDone(pushed)
             /\ UNCHANGED unexpected
          \/ \* dissolve throws: the cells are kept as they are
             /\ parkBlocks # <<>>
             /\ MayFail
             /\ faults' = faults + 1
             /\ \E pushed \in {PushParks(st, ParkCells, 0)} : ParksDone(pushed)
             /\ UNCHANGED unexpected
          \/ \* fillParkWithTrees throws after the first merged park was
             \* pushed: the handler of line 526 then pushes every cell
             /\ parkBlocks # <<>>
             /\ MayFail
             /\ faults' = faults + 1
             /\ unexpected' = TRUE
             /\ \E first \in {PushParks(st, Dissolve(featuresToMerge(0)), 1)} :
                   \E pushed \in {PushParks(first, ParkCells, 0)} : ParksDone(pushed)
    /\ UNCHANGED <<apart, args, earlier, site, gridInfo, loop, block, globalLotIndex, final, access>>

\* an unwrapped operation of the park merging throws outside its try, or
\* inside the handler of line 526
ParkMergeThrows ==
    /\ pc = "parks"
    /\ ThrowsUnexpected("parks")
    /\ UNCHANGED <<apart, args, earlier>>

\* ------------------------------------------------------------------------
\* generateBuilding: markings and rotation back
\* ------------------------------------------------------------------------

\* lines 174-177: the road crossing stored for the cell of column i, row j
Intersection(i, j) ==
    <<startX(site.bbox) + i * xStep + targetBlockWidthDeg + roadWidthDegX \div 2,
      startY(site.bbox) + j * yStep + blockDepthDeg + roadWidthDegY \div 2>>

intersections ==
    {Intersection(i, j) : i \in (-bufferCols)..(numCols(site.bbox) + bufferCols - 1),
                          j \in (-bufferRows)..(numRows(site.bbox) + bufferRows - 1)}

\* the atoms around a lattice point
Around(pt) == {<<pt[1] - 1, pt[2] - 1>>, <<pt[1], pt[2] - 1>>, <<pt[1] - 1, pt[2]>>, pt}

\* the squared distance in lattice units from a lattice point to an atom
DistSq(pt, a) ==
    LET dx == Max2(0, Max2(a[1] - pt[1], pt[1] - (a[1] + 1)))
        dy == Max2(0, Max2(a[2] - pt[2], pt[2] - (a[2] + 1)))
    IN dx * dx + dy * dy

\* lines 541-551: a crossing inside the parcel and outside every park is
\* marked when a park is nearer than twice the road width
isNearPark(pt, parks) ==
    /\ Around(pt) \cap site.working # {}
    /\ \A n \in 1..Len(parks) : Around(pt) \cap parks[n].poly = {}
    /\ \E n \in 1..Len(parks) : \E a \in parks[n].poly :
          DistSq(pt, a) * UnitM * UnitM < 4 * config.roadWidth * config.roadWidth

\* lines 537-592: the crossings that get zebra markings, by column and row
Markings(parks) ==
    LET marked == {pt \in intersections : isNearPark(pt, parks)}
        RECURSIVE InOrder(_)
        InOrder(S) == IF S = {} THEN <<>>
                      ELSE <<FirstAtom(S)>> \o InOrder(S \ {FirstAtom(S)})
    IN InOrder(marked)

\* a faulty rotateBack: the lists stay in the working frame
keepFrame(t) == t

\* lines 594-602: every list is rotated back about the centre
rotateBack(t) ==
    LET Back(S) == RotateRegion(S, site.alignmentAngle, site.center)
    IN [lots |-> [n \in 1..Len(t.lots) |-> [t.lots[n] EXCEPT !.poly = Back(@)]],
        buildings |-> t.buildings,
        parks |-> [n \in 1..Len(t.parks) |-> [t.parks[n] EXCEPT !.poly = Back(@)]],
        trees |-> [n \in 1..Len(t.trees) |->
                      IF t.trees[n].at = Null THEN t.trees[n]
                      ELSE [t.trees[n] EXCEPT
                               !.at = Some(RotateAtomQ(@[1], Quarter(site.alignmentAngle),
                                                       site.center))]],
        superblocks |-> [n \in 1..Len(t.superblocks) |-> Back(t.superblocks[n])],
        roads |-> t.roads,
        markings |-> [n \in 1..Len(t.markings) |->
                         RotatePoint(t.markings[n], site.alignmentAngle, site.center)],
        stopSigns |-> t.stopSigns]

\* lines 537-602
RotateBack ==
    /\ pc = "rotate"
    /\ \/ /\ \E marked \in {[temp EXCEPT !.markings = Markings(temp.parks)]} :
                /\ temp' = marked
                /\ final' = rotateBack(marked)
          /\ Goes("rotate", "candidates")
          /\ UNCHANGED <<site, gridInfo, loop, block, globalLotIndex, access>>
       \/ ThrowsUnexpected("rotate")
    /\ UNCHANGED <<apart, args, earlier>>

\* ------------------------------------------------------------------------
\* generateBuilding: entrance candidates, gate, walls and statistics
\* ------------------------------------------------------------------------

\* a bearing brought into (-180, 180]
NormBearing(b) == IF b > 180 THEN b - 360 ELSE IF b <= -180 THEN b + 360 ELSE b

\* the unit step along an axis bearing
Dir(b) ==
    LET n == NormBearing(b)
    IN IF n = 0 THEN <<0, 1>> ELSE IF n = 90 THEN <<1, 0>>
       ELSE IF n = 180 THEN <<0, -1>> ELSE <<-1, 0>>

\* lines 612-625: the centre lines of the roads, rotated into the frame of
\* the boundary; each is given by two of its points and its bearing
roadProjectionLines ==
    LET bb == site.bbox
        Turn(pt) == RotatePoint(pt, site.alignmentAngle, site.center)
        Vertical(i) ==
            LET roadCenterX == startX(bb) + i * xStep + targetBlockWidthDeg
                               + roadWidthDegX \div 2
            IN [from |-> Turn(<<roadCenterX, bb[2] - 1>>),
                to |-> Turn(<<roadCenterX, bb[4] + 1>>),
                bearing |-> site.alignmentAngle]
        Horizontal(j) ==
            LET roadCenterY == startY(bb) + j * yStep + blockDepthDeg
                               + roadWidthDegY \div 2
            IN [from |-> Turn(<<bb[1] - 1, roadCenterY>>),
                to |-> Turn(<<bb[3] + 1, roadCenterY>>),
                bearing |-> site.alignmentAngle + 90]
        cols == numCols(bb) + 2 * bufferCols + 1
        rows == numRows(bb) + 2 * bufferRows + 1
    IN [n \in 1..cols |-> Vertical(n - 1 - bufferCols)]
       \o [n \in 1..rows |-> Horizontal(n - 1 - bufferRows)]

\* turf.lineIntersect of an axis-parallel line with the boundary: the
\* points where an edge of the ring crosses the line, in the order of the
\* edges
lineIntersect(line, ring) ==
    LET alongY == line.from[1] = line.to[1]
        Crossing(i) ==
            LET p == ring[i]
                q == ring[i + 1]
            IN IF alongY
               THEN IF /\ p[2] = q[2]
                       /\ Min2(p[1], q[1]) < line.from[1]
                       /\ line.from[1] < Max2(p[1], q[1])
                       /\ Min2(line.from[2], line.to[2]) <= p[2]
                       /\ p[2] <= Max2(line.from[2], line.to[2])
                    THEN <<<<line.from[1], p[2]>>>> ELSE <<>>
               ELSE IF /\ p[1] = q[1]
                       /\ Min2(p[2], q[2]) < line.from[2]
                       /\ line.from[2] < Max2(p[2], q[2])
                       /\ Min2(line.from[1], line.to[1]) <= p[1]
                       /\ p[1] <= Max2(line.from[1], line.to[1])
                    THEN <<<<p[1], line.from[2]>>>> ELSE <<>>
        F[n \in 0..(Len(ring) - 1)] == IF n = 0 THEN <<>> ELSE F[n - 1] \o Crossing(n)
    IN F[Len(ring) - 1]

\* the atoms on both sides of the point two metres from pt along the step d
ProbeAtoms(pt, d) ==
    IF d[1] # 0
    THEN LET x == IF d[1] > 0 THEN pt[1] ELSE pt[1] - 1
         IN {<<x, pt[2] - 1>>, <<x, pt[2]>>}
    ELSE LET y == IF d[2] > 0 THEN pt[2] ELSE pt[2] - 1
         IN {<<pt[1] - 1, y>>, <<pt[1], y>>}

\* lines 629-638: the crossing is a candidate when the point just inside
\* the parcel lies in no superblock and in no park
IsCandidate(pt, bearing, S) ==
    LET d == Dir(bearing)
        p1 == ProbeAtoms(pt, d)
        p2 == ProbeAtoms(pt, <<-d[1], -d[2]>>)
        insidePoint == IF p1 \cap S # {} THEN p1 ELSE IF p2 \cap S # {} THEN p2 ELSE {}
    IN /\ insidePoint # {}
       /\ \A n \in 1..Len(final.superblocks) : insidePoint \cap final.superblocks[n] = {}
       /\ \A n \in 1..Len(final.parks) : insidePoint \cap final.parks[n].poly = {}

\* lines 626-641
FoundCandidates ==
    LET lines == roadProjectionLines
        S == RingRegion(site.ring)
        OnLine(n) ==
            LET pts == lineIntersect(lines[n], site.ring)
                G[k \in 0..Len(pts)] ==
                    IF k = 0 THEN <<>>
                    ELSE IF IsCandidate(pts[k], lines[n].bearing, S)
                         THEN Append(G[k - 1], [midpoint |-> pts[k],
                                                roadBearing |-> lines[n].bearing])
                         ELSE G[k - 1]
            IN G[Len(pts)]
        F[n \in 0..Len(lines)] == IF n = 0 THEN <<>> ELSE F[n - 1] \o OnLine(n)
    IN F[Len(lines)]

\* line 647: two points nearer than 15 m
TooNear(a, b) ==
    EdgeLen2(a, b) * UnitM * UnitM < DedupeMeters * DedupeMeters

\* lines 645-649
Deduplicate(cands) ==
    LET F[n \in 0..Len(cands)] ==
            IF n = 0 THEN <<>>
            ELSE LET uniqueFiltered == F[n - 1]
                 IN IF \E k \in 1..Len(uniqueFiltered) :
                          TooNear(cands[n].midpoint, uniqueFiltered[k].midpoint)
                    THEN uniqueFiltered
                    ELSE Append(uniqueFiltered, cands[n])
    IN F[Len(cands)]

\* the order of turf.bearing from the centre c: the bearing of a is less
\* than the bearing of b
BearingLess(a, b, c) ==
    LET ax == a[1] - c[1]
        ay == a[2] - c[2]
        bx == b[1] - c[1]
        by == b[2] - c[2]
        Sector(x, y) == IF x < 0 THEN 0 ELSE IF x = 0 /\ y >= 0 THEN 1
                        ELSE IF x > 0 THEN 2 ELSE 3
    IN \/ Sector(ax, ay) < Sector(bx, by)
       \/ /\ Sector(ax, ay) = Sector(bx, by)
          /\ Sector(ax, ay) \in {0, 2}
          /\ ax * by - ay * bx < 0

\* lines 650-654
SortByBearing(cands) ==
    SortStable(cands, LAMBDA a, b : BearingLess(a.midpoint, b.midpoint, site.center))

\* lines 604-655
Candidates ==
    /\ pc = "candidates"
    /\ \/ /\ \E found \in {IF final.superblocks = <<>> THEN <<>> ELSE FoundCandidates} :
                access' = [noAccess EXCEPT
                              !.found = found,
                              !.uniqueCandidates = SortByBearing(Deduplicate(found))]
          /\ Goes("candidates", "gate")
          /\ UNCHANGED <<site, gridInfo, loop, temp, block, globalLotIndex, final>>
       \/ ThrowsUnexpected("candidates")
    /\ UNCHANGED <<apart, args, earlier>>

\* a faulty Gate: the index is clamped to the list and not wrapped
GateClamped(uniqueFiltered, index) ==
    LET safeIndex == Min2(index, Len(uniqueFiltered) - 1)
        selected == uniqueFiltered[safeIndex + 1]
    IN [type |-> "GATE", entryPoint |-> selected.midpoint,
        rotation |-> selected.roadBearing]

\* lines 657-686: the gate at the candidate the entry index picks
Gate(uniqueFiltered, index) ==
    LET safeIndex == JsRem(index, Len(uniqueFiltered))
        selected == uniqueFiltered[safeIndex + 1]
    IN [type |-> "GATE", entryPoint |-> selected.midpoint,
        rotation |-> selected.roadBearing]

\* the boundary line as the unit steps from each vertex of the ring to the
\* next
UnitEdges(ring) ==
    LET Steps(p, q) ==
            LET len == Abs(q[1] - p[1]) + Abs(q[2] - p[2])
                dx == IF q[1] > p[1] THEN 1 ELSE IF q[1] < p[1] THEN -1 ELSE 0
                dy == IF q[2] > p[2] THEN 1 ELSE IF q[2] < p[2] THEN -1 ELSE 0
            IN [k \in 1..len |-> <<<<p[1] + (k - 1) * dx, p[2] + (k - 1) * dy>>,
                                   <<p[1] + k * dx, p[2] + k * dy>>>>]
        F[n \in 0..(Len(ring) - 1)] ==
            IF n = 0 THEN <<>> ELSE F[n - 1] \o Steps(ring[n], ring[n + 1])
    IN F[Len(ring) - 1]

\* lines 694-696 and 703: the middle of a unit step lies inside the mask,
\* a circle of 0.6 road widths about the entry point
InMask(edge, entryPoint) ==
    LET mx == edge[1][1] + edge[2][1] - 2 * entryPoint[1]
        my == edge[1][2] + edge[2][2] - 2 * entryPoint[2]
    IN 25 * (mx * mx + my * my) * UnitM * UnitM
          < 4 * 9 * config.roadWidth * config.roadWidth

\* lines 698-706: the boundary is split where it crosses the mask and the
\* pieces outside the mask are kept; without a crossing it is kept whole
Split(edges, entryPoint) ==
    LET F[n \in 0..Len(edges)] ==
            IF n = 0 THEN <<>>
            ELSE LET kept == F[n - 1]
                 IN IF InMask(edges[n], entryPoint) THEN kept
                    ELSE IF n > 1 /\ ~InMask(edges[n - 1], entryPoint)
                         THEN [kept EXCEPT ![Len(kept)] = Append(@, edges[n])]
                         ELSE Append(kept, <<edges[n]>>)
        crossed == \E n, k \in 1..Len(edges) :
                      InMask(edges[n], entryPoint) /\ ~InMask(edges[k], entryPoint)
    IN IF crossed THEN F[Len(edges)] ELSE <<edges>>

\* lines 692-708
Walls(accessControlData) ==
    IF accessControlData # Null
    THEN Split(UnitEdges(site.ring), accessControlData[1].entryPoint)
    ELSE <<UnitEdges(site.ring)>>

\* lines 710-712
AreaOf(features) == SumSeq([n \in 1..Len(features) |-> Area(features[n].poly)])

\* a faulty possibleEntrances: the candidates are counted before they are
\* deduplicated
foundEntrances(uniqueCandidates) == Len(access.found)

\* a faulty possibleEntrances: the entrance the gate stands at is not counted
otherEntrances(uniqueCandidates) == Len(uniqueCandidates) - 1

\* lines 688-689 and 716: uniqueCandidates.length
possibleEntrances(uniqueCandidates) == Len(uniqueCandidates)

\* lines 714-717: the value returned by a run that came through
Outcome(done) ==
    LET netSellableArea == AreaOf(final.lots)
        parkArea == AreaOf(final.parks)
    IN [geometry |->
            [siteBoundary |-> site.ring, superblocks |-> final.superblocks,
             roads |-> final.roads, lots |-> final.lots,
             buildings |-> final.buildings, parks |-> final.parks,
             trees |-> final.trees, perimeterWalls |-> done.perimeterWalls,
             accessControl |-> done.accessControlData,
             roadMarkings |-> final.markings, stopSigns |-> final.stopSigns,
             entranceCandidates |->
                 [n \in 1..Len(access.uniqueCandidates) |->
                     access.uniqueCandidates[n].midpoint],
             isValid |-> TRUE, error |-> ErrNone],
        stats |->
            [siteArea |-> site.siteArea, netSellableArea |-> netSellableArea,
             roadArea |-> site.siteArea - netSellableArea - parkArea,
             parkArea |-> parkArea, totalLots |-> Len(final.lots),
             efficiency |-> Quotient(netSellableArea, site.siteArea),
             possibleEntrances |-> possibleEntrances(access.uniqueCandidates)]]

\* lines 656-717: the gate is built at the candidate the entry index
\* picks, the walls are cut and the result is returned
AccessControl ==
    /\ pc = "gate"
    /\ \/ \E e \in 0..MaxEntryIndex :
             LET accessControlData ==
                     IF access.uniqueCandidates = <<>> THEN Null
                     ELSE Some(Gate(access.uniqueCandidates, e))
             IN \E done \in {[access EXCEPT !.accessControlData = accessControlData,
                                            !.perimeterWalls = Walls(accessControlData)]} :
                /\ entryIndex' = IF access.uniqueCandidates = <<>> THEN entryIndex ELSE e
                /\ access' = done
                /\ result' = Some(Outcome(done))
                /\ pc' = "done"
                /\ ran' = ran \cup {"gate"}
                /\ UNCHANGED <<faults, unexpected, thrown, calls, site, gridInfo, loop,
                               temp, block, globalLotIndex, final>>
       \/ /\ ThrowsUnexpected("gate")
          /\ UNCHANGED entryIndex
    /\ UNCHANGED <<apart, points, config, parkPercentage, constraints, seed, earlier>>

\* what the application keeps of a returned result
Kept(res) ==
    [parkPercentage |-> parkPercentage,
     seed |-> seed,
     trees |-> Len(res.geometry.trees),
     stats |-> res.stats,
     isValid |-> res.geometry.isValid,
     lots |-> [n \in 1..Len(res.geometry.lots) |-> res.geometry.lots[n].poly],
     parks |-> [n \in 1..Len(res.geometry.parks) |-> res.geometry.parks[n].poly],
     entranceCandidates |-> res.geometry.entranceCandidates]

\* the application calls generateBuilding again on the same boundary and
\* constraints, with a config that differs at most by its entryIndex and
\* by a parkPercentage not smaller than before; Math.random is wherever it
\* is by then
Again ==
    /\ pc = "done"
    /\ earlier = Null
    /\ faults = 0
    /\ earlier' = Some(Kept(result[1]))
    /\ parkPercentage' = Unread
    /\ entryIndex' = Unread
    /\ seed' \in Seeds
    /\ calls' = 0
    /\ pc' = "start"
    /\ ran' = {}
    /\ result' = Null
    /\ thrown' = "none"
    /\ Unwind
    /\ UNCHANGED <<apart, points, config, constraints, faults, unexpected>>

Next ==
    \/ Start
    \/ Normalize
    \/ Kinks
    \/ AreaCheck
    \/ Align
    \/ GridCell
    \/ Classify
    \/ Block
    \/ ParkMerge
    \/ ParkMergeThrows
    \/ RotateBack
    \/ Candidates
    \/ AccessControl
    \/ Catch
    \/ Again

Spec == Init /\ [][Next]_vars

\* ------------------------------------------------------------------------
\* Properties of generateBuilding
\* ------------------------------------------------------------------------

\* the call has returned
Returned == pc = "done" /\ result # Null

geometry == result[1].geometry

stats == result[1].stats

\* the boundary the checks of lines 99-113 look at, from the arguments
InputRing == rewind(cleanCoords(CloseRing(points)))

HasRing == Len(points) >= MinPoints /\ ~PolygonThrows(CloseRing(points))

InputKinks == Cardinality(kinks(InputRing))

InputArea == RingArea(InputRing)

LaterStages ==
    {"area", "align", "grid", "classify", "block", "parks", "rotate", "candidates", "gate"}

CalculationFailed ==
    /\ Returned
    /\ geometry.isValid = FALSE
    /\ geometry.error = ErrCalculationFailed

\* C1, as the code has it: the call ends with a {geometry, stats} record
\* and its exceptions do not leave it; an exception that reaches the
\* handler of the top-level try gives isValid = false with the generic
\* calculation failure error
C1_HandledFailure ==
    /\ pc = "done" => /\ result # Null
                      /\ DOMAIN result[1] = {"geometry", "stats"}
    /\ thrown # "none" => pc = "catch" \/ CalculationFailed
    /\ thrown = "none" => pc # "catch"

\* a library operation failed while the residential blocks were made and
\* the call returned the calculation failure
C1_Witness ==
    /\ CalculationFailed
    /\ thrown = "library"
    /\ "block" \in ran

\* C1, as stated: an unexpected exception anywhere in the pipeline gives
\* isValid = false with the generic calculation failure error
C1_AnyFailureReported == (pc = "done" /\ unexpected) => CalculationFailed

\* C2: for a boundary with at least one kink, in a run where no operation
\* the code leaves unwrapped throws, none of the stages after the kink
\* check ever runs, and once the kink check has run the result has
\* isValid = false and the self-intersection error
C2_SelfIntersection ==
    (HasRing /\ InputKinks >= 1 /\ ~unexpected)
        => /\ ran \cap LaterStages = {}
           /\ (pc = "done" /\ "kinks" \in ran)
                 => /\ result # Null
                    /\ geometry.isValid = FALSE
                    /\ geometry.error = ErrSelfIntersect

C2_Witness ==
    /\ Returned
    /\ points = PtsBowtie
    /\ InputKinks >= 1
    /\ geometry.error = ErrSelfIntersect

\* C3: a boundary without kinks and with an area below 100 is returned
\* with isValid = false and without lots, and no lot was made for it
C3_TooSmallInvalid ==
    /\ (HasRing /\ InputKinks = 0 /\ InputArea < 100) => temp.lots = <<>>
    /\ (pc = "done" /\ HasRing /\ InputKinks = 0 /\ InputArea < 100)
          => /\ result # Null
             /\ geometry.isValid = FALSE
             /\ geometry.lots = <<>>

C3_Witness ==
    /\ Returned
    /\ points = PtsSmallTriangle
    /\ InputArea < 100
    /\ thrown = "Area too small"
    /\ geometry.isValid = FALSE

\* C4, as stated: the error returned when the boundary is rejected for its
\* area differs from the error returned for an unexpected exception
C4_OwnSignal ==
    (pc = "done" /\ thrown = "Area too small")
        => /\ result # Null
           /\ geometry.error # ErrCalculationFailed

\* the result that holds nothing
IsEmptyResult ==
    /\ geometry.isValid = FALSE
    /\ \A f \in {"siteArea", "netSellableArea", "roadArea", "parkArea", "totalLots",
                 "efficiency", "possibleEntrances"} : stats[f] = 0
    /\ geometry.accessControl = <<>>
    /\ \A f \in {"superblocks", "roads", "lots", "buildings", "parks", "trees",
                 "perimeterWalls", "roadMarkings", "stopSigns", "entranceCandidates"} :
          geometry[f] = <<>>

\* C5: with fewer than 3 points, a boundary with a kink or a boundary of
\* an area below 100, the result is the empty result
C5_FatalChecksEmpty ==
    (pc = "done" /\ (\/ Len(points) < 3
                     \/ HasRing /\ InputKinks >= 1
                     \/ HasRing /\ InputArea < 100))
        => result # Null /\ IsEmptyResult

C5_Witness ==
    /\ Returned
    /\ points = PtsSmallSquare
    /\ ran = {"start", "normalize", "kinks", "area", "catch"}
    /\ IsEmptyResult

\* the polygons of the returned lots and parks
SoldAndGreen ==
    [n \in 1..Len(geometry.lots) |-> geometry.lots[n].poly]
        \o [n \in 1..Len(geometry.parks) |-> geometry.parks[n].poly]

\* C6: a boundary without kinks and of an area of at least 100, in a run
\* where no operation the code leaves unwrapped throws, is returned with
\* isValid = true and netSellableArea + parkArea <= siteArea, and no two of
\* its lots and parks overlap: together they cover as much as their areas
\* add up to
C6_AreasWithinSite ==
    (pc = "done" /\ HasRing /\ InputKinks = 0 /\ InputArea >= 100
                 /\ ~unexpected /\ "kinks" \in ran)
        => /\ result # Null
           /\ geometry.isValid = TRUE
           /\ stats.siteArea = InputArea
           /\ stats.netSellableArea + stats.parkArea <= stats.siteArea
           /\ Area(UNION {SoldAndGreen[n] : n \in 1..Len(SoldAndGreen)})
                 = stats.netSellableArea + stats.parkArea

C6_Witness ==
    /\ Returned
    /\ faults = 0
    /\ geometry.isValid = TRUE
    /\ stats.netSellableArea > 0
    /\ Len(geometry.parks) >= 2
    /\ stats.netSellableArea + stats.parkArea <= stats.siteArea

\* C7: on every return, efficiency is at least 0, is the quotient of
\* netSellableArea by siteArea (in thousandths, rounded down) when siteArea
\* is above 0, and is 0 when siteArea is 0
C7_Efficiency ==
    pc = "done"
        => /\ result # Null
           /\ stats.efficiency >= 0
           /\ stats.siteArea > 0
                 => /\ stats.efficiency * stats.siteArea <= 1000 * stats.netSellableArea
                    /\ 1000 * stats.netSellableArea < (stats.efficiency + 1) * stats.siteArea
           /\ stats.siteArea = 0 => stats.efficiency = 0

C7_Witness ==
    /\ Returned
    /\ stats.siteArea > 0
    /\ stats.efficiency > 0
    /\ stats.netSellableArea < stats.siteArea

\* C8: with a candidate list that is not empty, the gate stands at the
\* candidate numbered entryIndex mod the length of the list, which is one of
\* the returned entranceCandidates, and the choice does not make the run fail
C8_GateWraps ==
    /\ (pc = "done" /\ result # Null /\ geometry.isValid /\ geometry.entranceCandidates # <<>>)
          => /\ geometry.accessControl # <<>>
             /\ entryIndex >= 0
             /\ geometry.accessControl[1].entryPoint
                   = geometry.entranceCandidates[
                         (entryIndex % Len(geometry.entranceCandidates)) + 1]
    /\ (pc = "done" /\ entryIndex # Unread /\ faults = 0)
          => result # Null /\ geometry.isValid

C8_Witness ==
    /\ Returned
    /\ geometry.isValid
    /\ Len(geometry.entranceCandidates) = 2
    /\ entryIndex = 2
    /\ geometry.accessControl[1].entryPoint = geometry.entranceCandidates[1]

\* C9: in a valid result possibleEntrances is the number of the
\* deduplicated candidates, as they were before the entry index was read,
\* and the length of entranceCandidates
C9_PossibleEntrances ==
    [][(pc = "gate" /\ pc' = "done")
          => /\ entryIndex = Unread
             /\ result'[1].stats.possibleEntrances = Len(access.uniqueCandidates)
             /\ result'[1].stats.possibleEntrances
                   = Len(result'[1].geometry.entranceCandidates)
             /\ \A n \in 1..Len(access.uniqueCandidates) :
                   \A k \in 1..Len(access.uniqueCandidates) :
                      n # k => ~TooNear(access.uniqueCandidates[n].midpoint,
                                        access.uniqueCandidates[k].midpoint)
      ]_vars

C9_Witness ==
    /\ Returned
    /\ geometry.isValid
    /\ entryIndex = 1
    /\ Len(access.found) > Len(access.uniqueCandidates)
    /\ stats.possibleEntrances = Len(geometry.entranceCandidates)
    /\ stats.possibleEntrances >= 1

\* the unit steps of the boundary that no returned wall covers
OpenSteps ==
    LET edges == UnitEdges(geometry.siteBoundary)
        walls == geometry.perimeterWalls
    IN {n \in 1..Len(edges) :
           \A w \in 1..Len(walls) : \A k \in 1..Len(walls[w]) : walls[w][k] # edges[n]}

\* the openings of the returned walls: the runs of open steps round the
\* boundary
Openings ==
    LET count == Len(UnitEdges(geometry.siteBoundary))
        Before(n) == IF n = 1 THEN count ELSE n - 1
    IN Cardinality({n \in OpenSteps : Before(n) \notin OpenSteps})

\* C10, as stated: in a valid result the walls are the one unbroken
\* boundary loop when accessControl is null, and the boundary with exactly
\* one opening, never the whole loop, when it is not
C10_OneOpening ==
    (pc = "done" /\ result # Null /\ geometry.isValid)
        => IF geometry.accessControl = <<>>
           THEN geometry.perimeterWalls = <<UnitEdges(geometry.siteBoundary)>>
           ELSE OpenSteps # {} /\ Openings = 1

\* the run has classified its cells and still holds them
Classified == "classify" \in ran /\ pc \notin {"classify", "catch"} /\ thrown = "none"

\* C11: after classification every cell that holds the rotated position of
\* a park anchor is a park, whatever parkPercentage is; it is never the
\* cell of a residential block and no lot is made in it
C11_AnchorsArePark ==
    Classified
        => \A n \in 1..Len(gridInfo) :
              isForcedPark(gridInfo[n])
                  => /\ gridInfo[n].type = "park"
                     /\ block.idx > 0 => block.finalBlock # gridInfo[n].poly
                     /\ \A k \in 1..Len(temp.lots) :
                           temp.lots[k].poly \cap gridInfo[n].poly = {}

C11_Witness ==
    /\ Returned
    /\ geometry.isValid
    /\ parkPercentage = 0
    /\ geometry.lots # <<>>
    /\ \E n \in 1..Len(gridInfo) :
          isForcedPark(gridInfo[n]) /\ gridInfo[n].type = "park"

\* the cells of the classified grid without an anchor, by their type
QuotaCells(type) ==
    {n \in 1..Len(gridInfo) : ~isForcedPark(gridInfo[n]) /\ gridInfo[n].type = type}

\* the area of the cells numbered in S
AreaOfCells(S) ==
    SumSeq([n \in 1..Len(gridInfo) |-> IF n \in S THEN Area(gridInfo[n].poly) ELSE 0])

AnchoredCells == {n \in 1..Len(gridInfo) : isForcedPark(gridInfo[n])}

\* C12: after classification no cell is unknown; the cells without an
\* anchor that became parks are the smallest ones; each became a park while
\* the area of the anchored cells and of the parks before it was below
\* parkPercentage percent of the total cell area, and the cells left
\* residential met a park area at or above that target
C12_GreedyQuota ==
    Classified
        => LET quotaParks == QuotaCells("park")
               quotaHomes == QuotaCells("residential")
               reached == AreaOfCells(AnchoredCells) + AreaOfCells(quotaParks)
               target == AreaOfCells(1..Len(gridInfo)) * parkPercentage
               last == SetMax({Area(gridInfo[n].poly) : n \in quotaParks})
           IN /\ \A n \in 1..Len(gridInfo) : gridInfo[n].type \in {"park", "residential"}
              /\ \A n \in quotaParks : \A k \in quotaHomes :
                    Area(gridInfo[n].poly) <= Area(gridInfo[k].poly)
              /\ quotaParks # {} => (reached - last) * 100 < target
              /\ quotaHomes # {} => reached * 100 >= target

C12_Witness ==
    /\ Returned
    /\ Classified
    /\ parkPercentage = 15
    /\ Cardinality(QuotaCells("park")) >= 2
    /\ QuotaCells("residential") # {}

\* the call is the second one on the same boundary and constraints, both
\* calls got as far as reading parkPercentage, and this one has returned
ReturnedAgain ==
    /\ Returned
    /\ earlier # Null
    /\ earlier[1].parkPercentage # Unread
    /\ parkPercentage # Unread

\* C13: of two calls on the same boundary and constraints without library
\* failures, the one with the larger parkPercentage returns a parkArea that
\* is not smaller, and its parks cover the parks of the other
C13_ParkAreaMonotone ==
    ReturnedAgain /\ earlier[1].parkPercentage <= parkPercentage
        => /\ earlier[1].stats.parkArea <= stats.parkArea
           /\ UNION SeqToSet(earlier[1].parks)
                 \subseteq UNION {geometry.parks[n].poly : n \in 1..Len(geometry.parks)}

\* the only block of the first call got no lot and was made a park although
\* parkPercentage was 0 and no anchor was set; the second call makes the
\* same cell a park by quota
C13_Witness ==
    /\ ReturnedAgain
    /\ earlier[1].parkPercentage = 0
    /\ Len(constraints) = 0
    /\ earlier[1].stats.parkArea > 0
    /\ parkPercentage = 15
    /\ QuotaCells("park") # {}

\* the call is the second one on the same boundary, constraints and
\* parkPercentage, and it has returned
ReturnedSame ==
    /\ Returned
    /\ earlier # Null
    /\ earlier[1].parkPercentage = parkPercentage

\* C14: two calls on the same boundary, config and constraints, without
\* library failures, return the same isValid, the same statistics, the same
\* lots, parks and entrance candidates, wherever Math.random starts
C14_DrawsOnlyDecorate ==
    ReturnedSame
        => /\ geometry.isValid = earlier[1].isValid
           /\ stats.totalLots = earlier[1].stats.totalLots
           /\ stats.siteArea = earlier[1].stats.siteArea
           /\ stats.netSellableArea = earlier[1].stats.netSellableArea
           /\ stats.parkArea = earlier[1].stats.parkArea
           /\ stats.possibleEntrances = earlier[1].stats.possibleEntrances
           /\ Kept(result[1]).lots = earlier[1].lots
           /\ Kept(result[1]).parks = earlier[1].parks
           /\ geometry.entranceCandidates = earlier[1].entranceCandidates

\* the two calls started Math.random differently and planted different
\* numbers of trees around the same lots and parks
C14_Witness ==
    /\ ReturnedSame
    /\ geometry.isValid
    /\ seed # earlier[1].seed
    /\ Len(geometry.trees) # earlier[1].trees
    /\ stats.totalLots > 0
    /\ stats.parkArea > 0
    /\ stats.possibleEntrances > 0

\* C15: every lot of a valid result is a non-empty part of the parcel the
\* caller gave, also after library failures in slicing, merging or building
C15_LotsInsideSite ==
    Returned /\ geometry.isValid
        => \A k \in 1..Len(geometry.lots) :
              /\ geometry.lots[k].poly # {}
              /\ geometry.lots[k].poly \subseteq RingRegion(InputRing)

\* the parcel was turned into the working frame and back, a wrapped
\* library operation failed on the way, and lots were made
C15_Witness ==
    /\ Returned
    /\ geometry.isValid
    /\ site.alignmentAngle # 0
    /\ faults > 0
    /\ ~unexpected
    /\ Len(geometry.lots) >= 2

\* C16: no step of a call changes the points, the config or the
\* constraints of the caller; a field of the config, once read, keeps the
\* value it was read with until the call has returned
C16_ArgumentsKept ==
    [][/\ points' = points
       /\ config' = config
       /\ constraints' = constraints
       /\ pc # "done" /\ parkPercentage # Unread => parkPercentage' = parkPercentage
       /\ pc # "done" /\ entryIndex # Unread => entryIndex' = entryIndex]_vars

\* a valid result for a boundary that was given open, so that the ring was
\* closed by appending its first vertex, and for constraints that were
\* turned into the working frame
C16_Witness ==
    /\ Returned
    /\ geometry.isValid
    /\ points[1] # points[Len(points)]
    /\ Len(geometry.siteBoundary) = Len(points) + 1
    /\ site.alignmentAngle # 0
    /\ Len(constraints) > 0
    /\ Len(site.workingConstraints) = Len(constraints)

\* the lots of seq carry the ids 0, 1, 2, ... in the order of the list
Sequential(lots) == \A i \in 1..Len(lots) : lots[i].lotId = i - 1

\* the superblocks of the result that hold lots, and the lots in each
LotsIn(sb) == {k \in 1..Len(geometry.lots) : geometry.lots[k].poly \subseteq sb}

\* C17, as the code has it: when no operation the code does not wrap has
\* thrown, the lots made so far carry the ids 0, 1, 2, ... in the order they
\* were made and the next id is their number, in the first call and in a
\* later one; in a valid result totalLots is that number
C17_SequentialIds ==
    ~unexpected
        => /\ thrown = "none" /\ ~Returned
              => Sequential(temp.lots) /\ globalLotIndex = Len(temp.lots)
           /\ Returned /\ geometry.isValid
              => /\ Sequential(geometry.lots)
                 /\ stats.totalLots = Len(geometry.lots)
                 /\ globalLotIndex = stats.totalLots

\* a second call returned lots of two blocks, and part of one of the blocks
\* became no lot
C17_Witness ==
    /\ Returned
    /\ geometry.isValid
    /\ ~unexpected
    /\ earlier # Null
    /\ earlier[1].stats.totalLots > 0
    /\ \E a, b \in SeqToSet(geometry.superblocks) :
          /\ a # b
          /\ LotsIn(a) # {}
          /\ LotsIn(b) # {}
          /\ Area(a) > Area(UNION {geometry.lots[k].poly : k \in LotsIn(a)})

\* C17, as stated: in every valid result the lot at position i has id i
C17_EveryValidResult ==
    Returned /\ geometry.isValid => Sequential(geometry.lots)

\* the lots, buildings and lot trees of a result that carry the lot id
LotsWithId(id) == {k \in 1..Len(geometry.lots) : geometry.lots[k].lotId = id}

BuildingsOf(id) == {k \in 1..Len(geometry.buildings) : geometry.buildings[k].lotId = id}

LotTreesOf(id) ==
    {k \in 1..Len(geometry.trees) :
        Len(geometry.trees[k].lotId) = 1 /\ geometry.trees[k].lotId[1] = id}

\* every building and every tree of the result refers to one thing that is
\* in the result, and no lot has two buildings or two trees
OneOwnerEach ==
    /\ \A b \in 1..Len(geometry.buildings) :
          \E id \in {geometry.buildings[b].lotId} :
             /\ Cardinality(LotsWithId(id)) = 1
             /\ BuildingsOf(id) = {b}
    /\ \A t \in 1..Len(geometry.trees) :
          \E tree \in {geometry.trees[t]} :
             /\ Len(tree.lotId) + Len(tree.parkId) = 1
             /\ Len(tree.lotId) = 1
                   => /\ Cardinality(LotsWithId(tree.lotId[1])) = 1
                      /\ LotTreesOf(tree.lotId[1]) = {t}
             /\ Len(tree.parkId) = 1
                   => tree.parkId[1] \in 0..(Len(geometry.parks) - 1)

\* C18, as the code has it: when no operation the code does not wrap has
\* thrown, each building of a valid result belongs to exactly one lot and is
\* the only building of it, each tree carries either a lotId or a parkId, a
\* lot tree belongs to exactly one lot and is the only tree of it, and a park
\* tree carries an index of geometry.parks
C18_OneOwnerEach ==
    Returned /\ geometry.isValid /\ ~unexpected => OneOwnerEach

\* a valid result with lot trees and park trees, a lot without a building
\* and a lot without a tree
C18_Witness ==
    /\ Returned
    /\ geometry.isValid
    /\ ~unexpected
    /\ \E t \in 1..Len(geometry.trees) : Len(geometry.trees[t].parkId) = 1
    /\ \E k, n \in 1..Len(geometry.lots) :
          /\ BuildingsOf(geometry.lots[k].lotId) = {}
          /\ LotTreesOf(geometry.lots[k].lotId) # {}
          /\ BuildingsOf(geometry.lots[n].lotId) # {}
          /\ LotTreesOf(geometry.lots[n].lotId) = {}

\* C18, as stated: in every valid result each building and each lot tree
\* refers to exactly one lot, no lot has two of either, and each park tree
\* refers to an existing park
C18_EveryValidResult ==
    Returned /\ geometry.isValid => OneOwnerEach

\* the candidate lists the merge loop is tried on besides those the parcels
\* give: up to MaxStrips lots side by side, each a strip one unit wide and
\* up to MaxStripHeight units high
MaxStrips == 3

MaxStripHeight == 2

Strip(col, h) == {<<col, y>> : y \in 0..(h - 1)}

StripLists ==
    UNION {{[i \in 1..n |-> Strip(i, hs[i])] : hs \in [1..n -> 1..MaxStripHeight]} :
              n \in 1..MaxStrips}

\* the loop on the candidates cands, with the call of turf.union numbered
\* failAt failing, makes passes of which each but the last leaves
\* keepMerging set, each that leaves it set has made the list one shorter,
\* and which are no more than the candidates and one
RepairEnds(cands, failAt) ==
    \E run \in {MergeRun(cands, 0, failAt)} :
       /\ \A i \in 1..Len(run) :
             /\ i < Len(run) => run[i].keepMerging /\ run[i + 1].before = run[i].after
             /\ run[i].keepMerging => Len(run[i].after) = Len(run[i].before) - 1
             /\ ~run[i].keepMerging => run[i].after = run[i].before
       /\ Len(run) <= Len(cands) + 1

\* the candidate lists of the block that was processed last, with and
\* without a failed slice
BlockCandidates ==
    {candidateLots(block.zones[n].poly, skip) :
        n \in {k \in 1..Len(block.zones) :
                  2 * Area(block.zones[k].poly) >= targetLotArea},
        skip \in 0..1}

\* C19: the sliver-repair loop of a band ends for the candidate lots of every
\* band of the parcels and for every list of strips, whichever of its calls
\* of turf.union returns null or throws: each pass that continues the loop
\* leaves the band one lot shorter, and n candidates see at most n + 1 passes
C19_RepairEnds ==
    /\ pc \in {"block", "parks"}
          => \A cands \in BlockCandidates :
                \A failAt \in 0..Len(cands) : RepairEnds(cands, failAt)
    /\ pc = "start" /\ earlier = Null
          => \A cands \in StripLists :
                \A failAt \in 0..Len(cands) : RepairEnds(cands, failAt)

\* a block was processed of which a band has candidates that take three
\* passes or more when every union succeeds, and whose loop ends in its
\* second pass, with a lot below 75 % left, when the second union fails
C19_Witness ==
    /\ pc \in {"block", "parks"}
    /\ "block" \in ran
    /\ \E cands \in BlockCandidates :
          /\ Len(MergeRun(cands, 0, 0)) >= 3
          /\ \E run \in {MergeRun(cands, 0, 2)} :
                /\ Len(run) = 2
                /\ ~run[2].keepMerging
                /\ WorstIdx(run[2].after) # 0

\* no lot of the band qualifies for merging or discarding: a lot below 75 %
\* of the nominal area has no neighbour, and a lot without a neighbour is not
\* below 40 % of it
Settled(lots) ==
    /\ \A i \in 1..Len(lots) : 4 * Area(lots[i]) < 3 * targetLotArea => Len(lots) = 1
    /\ Len(lots) = 1 => 5 * Area(lots[1]) >= 2 * targetLotArea

RepairPasses ==
    UNION {SeqToSet(MergeRun(cands, 0, 0)) :
              cands \in IF pc \in {"block", "parks"} THEN BlockCandidates
                        ELSE IF pc = "start" /\ earlier = Null THEN StripLists
                        ELSE {}}

\* the list a pass leaves when the lot at w is merged with the lot at t
MergedWith(lots, w, t) ==
    Splice(lots, Min2(w, t), 2, <<lots[Min2(w, t)] \cup lots[Max2(w, t)]>>)

\* the pass starts with an undersized lot that has a neighbour on both sides
BothSides(pass) ==
    WorstIdx(pass.before) > 1 /\ WorstIdx(pass.before) < Len(pass.before)

\* C21, as the code has it: an undersized lot between two neighbours is
\* merged with the left one when the left one is smaller and with the right
\* one otherwise, so with the right one when the two are equal in area
C21_SmallerElseRight ==
    \A pass \in RepairPasses :
       BothSides(pass) =>
          \E w \in {WorstIdx(pass.before)} :
             pass.after = MergedWith(pass.before, w,
                                     IF Area(pass.before[w - 1]) < Area(pass.before[w + 1])
                                     THEN w - 1 ELSE w + 1)

\* the call has processed, without a failure, a block with a band whose
\* repair met an undersized lot between two neighbours equal in area
C21_Witness ==
    /\ pc \in {"block", "parks"}
    /\ "block" \in ran
    /\ faults = 0
    /\ \E n \in 1..Len(block.zones) :
          /\ 2 * Area(block.zones[n].poly) >= targetLotArea
          /\ \E run \in {MergeRun(candidateLots(block.zones[n].poly, 0), 0, 0)} :
                \E i \in 1..Len(run) :
                   /\ BothSides(run[i])
                   /\ \E w \in {WorstIdx(run[i].before)} :
                         Area(run[i].before[w - 1]) = Area(run[i].before[w + 1])

\* C21, as stated: between two neighbours equal in area the lot is merged
\* with the left one, and otherwise with the smaller one
C21_SmallerElseLeft ==
    \A pass \in RepairPasses :
       BothSides(pass) =>
          \E w \in {WorstIdx(pass.before)} :
             pass.after = MergedWith(pass.before, w,
                                     IF Area(pass.before[w - 1]) <= Area(pass.before[w + 1])
                                     THEN w - 1 ELSE w + 1)

\* the iteration of residentialBlocks.forEach on one cell has ended
BlockStep == pc = "block" /\ block'.idx = block.idx + 1

\* the three ways a cell ends in: with lots, its block becomes a superblock
\* and no park; without lots and with more than 50 m2, its block becomes a
\* park with the next parkId, which no park has yet, and a superblock, and
\* fillParkWithTrees has drawn for it and added only trees of that park;
\* without lots and with 50 m2 or less, nothing is added
EndsWithLots ==
    /\ block'.lotsGeneratedInBlock > 0
    /\ temp'.superblocks = Append(temp.superblocks, block'.processedBlock)
    /\ temp'.parks = temp.parks

EndsAsPark ==
    /\ block'.lotsGeneratedInBlock = 0
    /\ Area(block'.processedBlock) > MinParkBlockArea
    /\ temp'.parks = Append(temp.parks, [poly |-> block'.processedBlock,
                                         parkId |-> Len(temp.parks)])
    /\ \A k \in 1..Len(temp.parks) : temp.parks[k].parkId # Len(temp.parks)
    /\ temp'.superblocks = Append(temp.superblocks, block'.processedBlock)
    /\ calls' > calls
    /\ Len(temp'.trees) <= Len(temp.trees) + actualTarget(block'.processedBlock)
    /\ \A k \in 1..Len(temp'.trees) :
          IF k <= Len(temp.trees) THEN temp'.trees[k] = temp.trees[k]
          ELSE /\ Len(temp'.trees[k].parkId) = 1
               /\ temp'.trees[k].parkId[1] = Len(temp.parks)

EndsDropped ==
    /\ block'.lotsGeneratedInBlock = 0
    /\ Area(block'.processedBlock) <= MinParkBlockArea
    /\ temp'.parks = temp.parks
    /\ temp'.superblocks = temp.superblocks
    /\ temp'.trees = temp.trees

EndsOneWay ==
    \/ EndsWithLots /\ ~EndsAsPark /\ ~EndsDropped
    \/ ~EndsWithLots /\ EndsAsPark /\ ~EndsDropped
    \/ ~EndsWithLots /\ ~EndsAsPark /\ EndsDropped

ParksOver(n) ==
    {k \in 1..Len(temp.parks) : parkBlocks[n].poly \subseteq temp.parks[k].poly}

\* the park merging has run and every park cell lies in exactly one park
OnceEach ==
    "parks" \in ran /\ thrown = "none"
        => \A n \in 1..Len(parkBlocks) : Cardinality(ParksOver(n)) = 1

\* C23, as the code has it: when no operation the code does not wrap has
\* thrown, the park merging leaves every park cell in exactly one park,
\* merged or not, also when dissolve throws or the intersect of a gap fails
C23_OnceEachUnlessThrown == ~unexpected => OnceEach

\* dissolve threw, or a gap was not filled, and the call went on with parks
C23_Witness ==
    /\ ~unexpected
    /\ "parks" \in ran
    /\ "block" \notin ran
    /\ thrown = "none"
    /\ faults = 1
    /\ Len(parkBlocks) >= 2
    /\ Len(temp.parks) = Len(parkBlocks)

\* C23, as stated: whichever step of the park merging fails, every park cell
\* lies in exactly one park of the result, merged or not
C23_NeverDuplicates ==
    /\ OnceEach
    /\ Returned /\ geometry.isValid
          => \A n \in 1..Len(parkBlocks) :
                Cardinality({k \in 1..Len(geometry.parks) :
                                RotateRegion(parkBlocks[n].poly, site.alignmentAngle,
                                             site.center)
                                   \subseteq geometry.parks[k].poly}) = 1

\* the column and the row of the grid a cell was cut from, counted from the
\* first column and row of the loops
ActualCol(cell) == (cell.originalBbox[1] - startX(site.bbox)) \div xStep + bufferCols

ActualRow(cell) == (cell.originalBbox[2] - startY(site.bbox)) \div yStep + bufferRows

\* every cell stores its column and row of the grid, and two cells store
\* indices that differ by one column or by one row exactly when they lie
\* side by side or one above the other in the grid
ActualIndices ==
    /\ \A n \in 1..Len(gridInfo) :
          /\ gridInfo[n].col = ActualCol(gridInfo[n])
          /\ gridInfo[n].row = ActualRow(gridInfo[n])
    /\ \A n, k \in 1..Len(gridInfo) :
          /\ (gridInfo[k].col = gridInfo[n].col + 1 /\ gridInfo[k].row = gridInfo[n].row)
                <=> /\ gridInfo[k].originalBbox[1] = gridInfo[n].originalBbox[1] + xStep
                    /\ gridInfo[k].originalBbox[2] = gridInfo[n].originalBbox[2]
          /\ (gridInfo[k].col = gridInfo[n].col /\ gridInfo[k].row = gridInfo[n].row + 1)
                <=> /\ gridInfo[k].originalBbox[1] = gridInfo[n].originalBbox[1]
                    /\ gridInfo[k].originalBbox[2] = gridInfo[n].originalBbox[2] + yStep

\* C24, as the code has it: as long as no operation has failed, every
\* surviving cell stores its column and row of the grid, whichever cells of
\* its column did not meet the parcel or were too small
C24_ActualUnlessFailed == faults = 0 => ActualIndices

\* cells of two rows and of two columns survived, after cells that did not
\* meet the parcel
C24_Witness ==
    /\ faults = 0
    /\ pc = "classify"
    /\ \E n, k \in 1..Len(gridInfo) :
          /\ gridInfo[n].col = gridInfo[k].col
          /\ gridInfo[n].row = gridInfo[k].row + 1
    /\ \E n, k \in 1..Len(gridInfo) : gridInfo[n].col = gridInfo[k].col + 1

\* C24, as stated: every surviving cell stores its column and row of the
\* grid, whatever happened to the other cells of its column
C24_ActualPosition == ActualIndices

\* C30: a returned result has a gate exactly when it counts at least one
\* possible entrance, and a valid result without superblocks comes from a
\* run that looked for no candidates: it counts no entrance, lists no
\* entrance candidate and has no gate
C30_GateIffEntrances ==
    Returned
        => /\ Len(geometry.accessControl) = 1 <=> stats.possibleEntrances >= 1
           /\ geometry.isValid /\ Len(geometry.superblocks) = 0
                 => /\ Len(access.found) = 0
                    /\ stats.possibleEntrances = 0
                    /\ Len(geometry.entranceCandidates) = 0
                    /\ Len(geometry.accessControl) = 0

\* a valid result without superblocks, without entrances and without a gate
C30_Witness ==
    /\ Returned
    /\ geometry.isValid
    /\ Len(geometry.superblocks) = 0
    /\ stats.possibleEntrances = 0
    /\ Len(geometry.accessControl) = 0

\* ------------------------------------------------------------------------
\* fillParkWithTrees, one attempt at a time
\* ------------------------------------------------------------------------

\* the variables of generateBuilding other than its tempTrees
callState ==
    <<args, calls, pc, faults, unexpected, thrown, ran, site, gridInfo, loop, block,
      globalLotIndex, final, access, result, earlier>>

\* no call of generateBuilding is running
NoCall ==
    /\ points = <<>>
    /\ config = Null
    /\ parkPercentage = Unread
    /\ entryIndex = Unread
    /\ constraints = <<>>
    /\ seed = 0
    /\ calls = 0
    /\ pc = "idle"
    /\ faults = 0
    /\ unexpected = FALSE
    /\ thrown = "none"
    /\ ran = {}
    /\ site = noSite
    /\ gridInfo = <<>>
    /\ loop = noLoop
    /\ temp = emptyTemp
    /\ block = noBlock
    /\ globalLotIndex = 0
    /\ final = emptyTemp
    /\ access = noAccess
    /\ result = Null
    /\ earlier = Null

\* the spacing in metres of the positions Math.random picks in a bbox
DrawStep == 3

\* a block of w by h atoms
Atoms(w, h) == (0..(w - 1)) \X (0..(h - 1))

\* the parks fillParkWithTrees is called on
TreeParks == {Atoms(2, 2), Atoms(2, 1), Atoms(1, 2)}

\* a position in metres is in a region or on its border
Covers(S, pt) ==
    \E a \in S : /\ a[1] * UnitM <= pt[1] /\ pt[1] <= (a[1] + 1) * UnitM
                 /\ a[2] * UnitM <= pt[2] /\ pt[2] <= (a[2] + 1) * UnitM

\* a polygon in metres: the positions of a region that are at least
\* inset metres inside it
Inset(S, inset) == [of |-> S, inset |-> inset]

\* turf.booleanPointInPolygon: a position on the border is inside
booleanPointInPolygon(pt, poly) ==
    \A dx, dy \in {-poly.inset, poly.inset} : Covers(poly.of, <<pt[1] + dx, pt[2] + dy>>)

\* the positions of the bbox of a region, on the metres
BboxMetres(S) ==
    LET b == RegionBbox(S) IN ((b[1] * UnitM)..(b[3] * UnitM)) \X ((b[2] * UnitM)..(b[4] * UnitM))

\* line 257: turf.buffer(parkPoly, -0.002): the park shrunk by 2 m, and
\* nothing when the shrunk park has no area
Buffered(parkPoly) ==
    LET shrunk == Inset(parkPoly, 2)
        inner == {pt \in BboxMetres(parkPoly) : booleanPointInPolygon(pt, shrunk)}
    IN IF \E pt \in inner : <<pt[1] + 1, pt[2] + 1>> \in inner THEN Some(shrunk) ELSE Null

\* lines 255-259: searchPoly is the shrunk park, and the park itself when
\* the buffer throws or yields nothing
SearchPoly(parkPoly, buffer) ==
    IF buffer = "throws" \/ Buffered(parkPoly) = Null
    THEN Inset(parkPoly, 0)
    ELSE Buffered(parkPoly)[1]

\* lines 247-261: a call of fillParkWithTrees, before its loop
Called(parkPoly, parkId, buffer) ==
    [pc |-> "loop", parkPoly |-> parkPoly, parkId |-> parkId,
     searchPoly |-> Some(SearchPoly(parkPoly, buffer)), placedTrees |-> <<>>, attempts |-> 0]

\* line 261
maxAttempts(parkPoly) == actualTarget(parkPoly) * 15

\* lines 264-265: the positions Math.random may pick in the bbox of a park
Draws(parkPoly) ==
    {pt \in BboxMetres(parkPoly) :
        /\ (pt[1] - RegionBbox(parkPoly)[1] * UnitM) % DrawStep = 0
        /\ (pt[2] - RegionBbox(parkPoly)[2] * UnitM) % DrawStep = 0}

\* turf.distance in metres, squared
MetresSq(p, q) == (p[1] - q[1]) * (p[1] - q[1]) + (p[2] - q[2]) * (p[2] - q[2])

\* a faulty isTooClose: trees are kept 3 m apart
isTooCloseBy3(pt, placedTrees) ==
    \E k \in 1..Len(placedTrees) : MetresSq(pt, placedTrees[k].at[1]) < 3 * 3

\* line 268
isTooClose(pt, placedTrees) ==
    \E k \in 1..Len(placedTrees) : MetresSq(pt, placedTrees[k].at[1]) < 4 * 4

\* line 262: the condition of the while loop
Attempting ==
    /\ planting.pc = "loop"
    /\ Len(planting.placedTrees) < actualTarget(planting.parkPoly)
    /\ planting.attempts < maxAttempts(planting.parkPoly)

\* lines 263-274: one attempt
Attempt ==
    /\ Attempting
    /\ \E pt \in Draws(planting.parkPoly) :
          LET tree == [ParkTree(planting.parkId) EXCEPT !.at = Some(pt)]
          IN IF /\ booleanPointInPolygon(pt, planting.searchPoly[1])
                /\ ~isTooClose(pt, planting.placedTrees)
             THEN /\ planting' = [planting EXCEPT !.attempts = @ + 1,
                                                  !.placedTrees = Append(@, tree)]
                  /\ temp' = [temp EXCEPT !.trees = Append(@, tree)]
             ELSE /\ planting' = [planting EXCEPT !.attempts = @ + 1]
                  /\ UNCHANGED temp
    /\ UNCHANGED <<callState, layer, app, canvas>>

\* line 262, 276: the loop ends and fillParkWithTrees returns
Planted ==
    /\ planting.pc = "loop"
    /\ ~Attempting
    /\ planting' = [planting EXCEPT !.pc = "done"]
    /\ UNCHANGED <<callState, temp, layer, app, canvas>>

InitTrees ==
    /\ NoCall
    /\ \E parkPoly \in TreeParks, parkId \in {0, 1}, buffer \in {"ok", "throws"} :
          planting = Called(parkPoly, parkId, buffer)
    /\ layer = noLayer
    /\ app = noApp
    /\ canvas = noCanvas

NextTrees ==
    \/ Attempt
    \/ Planted

SpecTrees == InitTrees /\ [][NextTrees]_vars

\* fillParkWithTrees is straight-line code: it goes on until it returns
FairTrees == SpecTrees /\ WF_vars(NextTrees)

\* ------------------------------------------------------------------------
\* Properties of fillParkWithTrees
\* ------------------------------------------------------------------------

\* the trees are pairwise at least 4 m apart
Spaced(placedTrees) ==
    \A k, l \in 1..Len(placedTrees) :
        k # l => MetresSq(placedTrees[k].at[1], placedTrees[l].at[1]) >= 4 * 4

\* at any moment of a call of fillParkWithTrees: at most 15 x target
\* attempts were made, at most target trees are placed, all of them
\* trees of this park inside searchPoly and pairwise 4 m apart, and they
\* are the trees added to tempTrees; the call returns when the target is
\* met or the attempts are used up, and no exception was raised
BestEffort ==
    LET target == Min2(Max2(3, Area(planting.parkPoly) \div 40), 500)
    IN /\ planting.attempts <= 15 * target
       /\ Len(planting.placedTrees) <= target
       /\ Len(planting.placedTrees) <= planting.attempts
       /\ Spaced(planting.placedTrees)
       /\ \A k \in 1..Len(planting.placedTrees) :
             /\ planting.placedTrees[k].parkId = Some(planting.parkId)
             /\ Covers(planting.parkPoly, planting.placedTrees[k].at[1])
       /\ temp.trees = planting.placedTrees
       /\ planting.pc = "done" =>
             /\ Len(planting.placedTrees) = target \/ planting.attempts = 15 * target
             /\ thrown = "none"
             /\ ~unexpected

\* C25: tree placement in a park always terminates and is best-effort:
\* with target = min(max(3, floor(parkArea / 40)), 500) it makes at most
\* 15 x target attempts, places at most target trees, keeps every pair of
\* trees of the park at least 4 m apart, and when the attempts run out
\* with fewer than target trees it returns those trees without an error
C25_BestEffortAndTerminates == []BestEffort /\ <>(planting.pc = "done")

\* the attempts of a call ran out with one or two trees placed, in a park
\* whose shrunk polygon has no room for a third
C25_Witness ==
    /\ planting.pc = "done"
    /\ planting.attempts = 15 * actualTarget(planting.parkPoly)
    /\ Len(planting.placedTrees) \in {1, 2}
    /\ Len(planting.placedTrees) < actualTarget(planting.parkPoly)
    /\ planting.searchPoly[1].inset = 2

\* ------------------------------------------------------------------------
\* displayGeometry: the features cut by the road polygons
\* ------------------------------------------------------------------------

\* the atoms of the strip the displayed features lie on, and of the site
MaxStripAtom == 1

StripAtoms == {<<x, 0>> : x \in 0..MaxStripAtom}

StripRegions == (SUBSET StripAtoms) \ {{}}

\* the longest list of road polygons the generator returns
MaxRawRoads == 1

\* the most custom roads drawn
MaxCustomRoads == 1

\* the result of a turf operation that may yield nothing
OrNull(S) == IF S = {} THEN Null ELSE Some(S)

\* a faulty Difference: what is left of the feature, and the feature
\* itself when nothing is left
DifferenceOrSame(current, road) ==
    IF current \ road = {} THEN Some(current) ELSE Some(current \ road)

\* line 822: turf.difference of two regions, null when nothing is left
Difference(current, road) == OrNull(current \ road)

\* lines 805-812: the custom roads clipped to the site are added to the
\* road polygons; a road whose intersect throws or yields nothing is not
clipped(roadPolygons, customRoads, siteBoundary, failClip) ==
    LET kept(n) == /\ n # failClip
                   /\ customRoads[n] \cap siteBoundary # {}
        RECURSIVE from(_)
        from(n) ==
            IF n > Len(customRoads) THEN <<>>
            ELSE (IF kept(n) THEN <<customRoads[n] \cap siteBoundary>> ELSE <<>>) \o from(n + 1)
    IN roadPolygons \o from(1)

\* the outcome of the loop over the road polygons for one feature
Cut(current, threw) == [current |-> current, threw |-> threw]

\* lines 817-827: one feature cut by the road polygons from the k-th on;
\* failCut names the road whose booleanIntersects or difference throws.
\* The loop stops at the operation that throws, with current as it was
RECURSIVE cutFrom(_, _, _, _)
cutFrom(current, roadPolygons, k, failCut) ==
    IF k > Len(roadPolygons) \/ Len(current) = 0 THEN Cut(current, "none")
    ELSE IF failCut.at = k /\ failCut.op = "booleanIntersects"
         THEN Cut(current, "booleanIntersects")
    ELSE IF current[1] \cap roadPolygons[k] = {}
         THEN cutFrom(current, roadPolygons, k + 1, failCut)
    ELSE IF failCut.at = k THEN Cut(current, "difference")
    ELSE cutFrom(Difference(current[1], roadPolygons[k]), roadPolygons, k + 1, failCut)

\* lines 815-828: a null feature is not cut
cutEach(features, roadPolygons, failCut) ==
    [n \in 1..Len(features) |->
        IF Len(features[n]) = 0 THEN Cut(Null, "none")
        ELSE cutFrom(features[n], roadPolygons, 1, failCut)]

cutAll(features, roadPolygons, failCut) ==
    LET cuts == cutEach(features, roadPolygons, failCut)
    IN [n \in 1..Len(features) |-> cuts[n].current]

\* a faulty CutHandler: the try is around the call of booleanIntersects only
HandlerAroundIntersects(op) == IF op = "booleanIntersects" THEN "catch" ELSE "escaped"

\* lines 818, 826: the try is around the loop over the road polygons, so
\* both operations throw into its catch
CutHandler(op) == "catch"

\* an exception leaves cutAll
Escapes(features, roadPolygons, failCut) ==
    \E n \in 1..Len(features) :
        LET threw == cutEach(features, roadPolygons, failCut)[n].threw
        IN threw # "none" /\ CutHandler(threw) # "catch"

\* the lists of at most n elements of a set
ListsUpTo(S, n) == UNION {[1..m -> S] : m \in 0..n}

\* lines 801-833 of the useMemo of displayGeometry
CutByRoads ==
    /\ layer.pc = "merged"
    /\ \E roadPolygons \in
            {IF Len(layer.customRoads) > 0 /\ Len(layer.siteBoundary) > 0
             THEN clipped(layer.roads, layer.customRoads, layer.siteBoundary[1],
                          layer.failClip)
             ELSE layer.roads} :
          IF Len(layer.customRoads) > 0 /\ Len(layer.siteBoundary) > 0 /\ Len(roadPolygons) > 0
          THEN IF \/ Escapes(layer.finalLots, roadPolygons, layer.failCut)
                  \/ Escapes(layer.finalSuperblocks, roadPolygons, layer.failCut)
                  \/ Escapes(layer.finalParks, roadPolygons, layer.failCut)
               THEN layer' = [layer EXCEPT !.pc = "threw", !.roadPolygons = roadPolygons]
               ELSE layer' = [layer EXCEPT
                        !.pc = "cut",
                        !.roadPolygons = roadPolygons,
                        !.finalLots = cutAll(layer.finalLots, roadPolygons, layer.failCut),
                        !.finalSuperblocks =
                            cutAll(layer.finalSuperblocks, roadPolygons, layer.failCut),
                        !.finalParks = cutAll(layer.finalParks, roadPolygons, layer.failCut)]
          ELSE layer' = [layer EXCEPT !.pc = "cut", !.roadPolygons = roadPolygons]
    /\ UNCHANGED <<callState, temp, planting, app, canvas>>

\* the features displayGeometry holds before it cuts them: the lists of
\* mergeList, whose entries may be null
Features == {Null} \cup {Some(S) : S \in StripRegions}

\* the operation of the cutting loop that throws, if any
CutFailures ==
    {[at |-> 0, op |-> "none"]} \cup
    [at : 1..(MaxRawRoads + MaxCustomRoads), op : {"booleanIntersects", "difference"}]

Merged(lots, superblocks, parks, roads, customRoads, siteBoundary, failClip, failCut) ==
    [pc |-> "merged", lots |-> lots, superblocks |-> superblocks, parks |-> parks,
     finalLots |-> lots, finalSuperblocks |-> superblocks, finalParks |-> parks,
     roads |-> roads, customRoads |-> customRoads, siteBoundary |-> siteBoundary,
     roadPolygons |-> <<>>, failClip |-> failClip, failCut |-> failCut]

InitLayer ==
    /\ NoCall
    /\ planting = noPlanting
    /\ \E lots \in ListsUpTo(Features, 2),
          superblocks \in ListsUpTo({Null, Some(StripAtoms)}, 1),
          parks \in ListsUpTo({Null, Some({<<0, 0>>})}, 1),
          roads \in ListsUpTo({{<<1, 0>>}}, MaxRawRoads),
          customRoads \in
              ListsUpTo({{<<0, 0>>}, {<<MaxStripAtom, 0>>, <<MaxStripAtom + 1, 0>>},
                         {<<MaxStripAtom + 1, 0>>}}, MaxCustomRoads),
          siteBoundary \in {Null, Some(StripAtoms)},
          failClip \in 0..MaxCustomRoads,
          failCut \in CutFailures :
          layer = Merged(lots, superblocks, parks, roads, customRoads, siteBoundary,
                         failClip, failCut)
    /\ app = noApp
    /\ canvas = noCanvas

NextLayer == CutByRoads

SpecLayer == InitLayer /\ [][NextLayer]_vars

\* ------------------------------------------------------------------------
\* Properties of the cut by the road polygons
\* ------------------------------------------------------------------------

\* the atoms of the roads before the k-th
RoadsBefore(roadPolygons, k) == UNION {roadPolygons[j] : j \in 1..(k - 1)}

\* the road at which the cut of a feature S stops: the one whose
\* operation throws, if the loop gets to that operation, and else the
\* end of the list
StopsAt(S, roadPolygons, failCut) ==
    IF /\ failCut.at \in 1..Len(roadPolygons)
       /\ S \ RoadsBefore(roadPolygons, failCut.at) # {}
       /\ \/ failCut.op = "booleanIntersects"
          \/ (S \ RoadsBefore(roadPolygons, failCut.at)) \cap roadPolygons[failCut.at] # {}
    THEN failCut.at
    ELSE Len(roadPolygons) + 1

\* a list after the cut, against the list before it: a null entry is
\* still null; another entry is what the differences before the failing
\* operation left of it, and it is null only if one of them succeeded
CutAsBefore(before, after, roadPolygons, failCut) ==
    /\ Len(after) = Len(before)
    /\ \A n \in 1..Len(before) :
          IF before[n] = Null THEN after[n] = Null
          ELSE LET S == before[n][1]
                   stop == StopsAt(S, roadPolygons, failCut)
               IN /\ after[n] = OrNull(S \ RoadsBefore(roadPolygons, stop))
                  /\ after[n] = Null =>
                        \E j \in 1..(stop - 1) : S \cap roadPolygons[j] # {}

\* C26: in the layer that cuts lots, superblocks and parks by the road
\* polygons, a difference that fails for one road never throws out of
\* the layer and leaves the feature as it was before that operation; a
\* non-null feature stays non-null unless a difference succeeded, and
\* null entries stay null
C26_FailedCutKeepsFeature ==
    /\ layer.pc # "threw"
    /\ layer.pc = "cut" /\ Len(layer.customRoads) > 0 /\ Len(layer.siteBoundary) > 0 =>
          /\ CutAsBefore(layer.lots, layer.finalLots, layer.roadPolygons, layer.failCut)
          /\ CutAsBefore(layer.superblocks, layer.finalSuperblocks, layer.roadPolygons,
                         layer.failCut)
          /\ CutAsBefore(layer.parks, layer.finalParks, layer.roadPolygons, layer.failCut)

\* the difference with the second road threw: the first lot is what the
\* difference with the first road left of it, the second lot was cut to
\* nothing by the first road, the null superblock is still null and the
\* park, which only the second road crosses, is as it was
C26_Witness ==
    /\ layer.pc = "cut"
    /\ layer.failCut = [at |-> 2, op |-> "difference"]
    /\ Len(layer.roadPolygons) = 2
    /\ Len(layer.lots) = 2
    /\ layer.lots[1] = Some(StripAtoms)
    /\ layer.finalLots[1] = Some(StripAtoms \ layer.roadPolygons[1])
    /\ layer.finalLots[1][1] \cap layer.roadPolygons[2] # {}
    /\ layer.lots[2] = Some(layer.roadPolygons[1])
    /\ layer.finalLots[2] = Null
    /\ layer.superblocks = <<Null>>
    /\ layer.finalSuperblocks = <<Null>>
    /\ layer.parks = <<Some({<<0, 0>>})>>
    /\ layer.finalParks = layer.parks
    /\ layer.parks[1][1] \cap layer.roadPolygons[2] # {}

\* ------------------------------------------------------------------------
\* The editor: the state of App and of MapCanvas, and their handlers
\* ------------------------------------------------------------------------

\* the positions a map click may have
MapPoints == {<<0, 0>>, <<1, 0>>}

\* the values of config.stories the slider is moved between
Stories == {2, 3}

\* the most boundary points, park anchors and custom roads drawn
MaxDrawn == 1

\* the most edits of one run other than drawing on the map and clearing
\* it: moves of the slider and projects loaded
MaxEdits == 1

\* line 591: the most snapshots the history keeps
HistoryLimit == 50

\* the fields of the App that are React state: a change of one of them
\* renders the App again
StateFields ==
    {"sitePoints", "constraints", "config", "customRoads", "overrides", "history",
     "activeTool", "isDockVisible", "confirmationState"}

closedConfirm == [isOpen |-> FALSE, onConfirm |-> Null]

\* lines 437-470: the App after its first render and its effects; the
\* effect of line 557 has started the dock timer
Mounted ==
    [pc |-> "mounted", sitePoints |-> <<>>, constraints |-> <<>>, config |-> [stories |-> 2],
     customRoads |-> <<>>, overrides |-> {}, history |-> <<>>, activeTool |-> "SELECT",
     isDockVisible |-> TRUE, dockTimerRef |-> "pending", confirmationState |-> closedConfirm,
     edits |-> 0]

\* the project kept in localStorage
SavedProject ==
    [sitePoints |-> <<<<0, 0>>>>, constraints |-> <<>>, config |-> [stories |-> 3],
     customRoads |-> <<>>, overrides |-> {"lot-0"}]

\* line 589: the snapshot of the editor state a render of the App sees
Snapshot(a) ==
    [sitePoints |-> a.sitePoints, constraints |-> a.constraints, config |-> a.config,
     customRoads |-> a.customRoads, overrides |-> a.overrides]

\* a faulty newHistory: a full history keeps what it has
newHistoryUnlessFull(prev, snapshot) ==
    IF Len(prev) >= HistoryLimit THEN prev ELSE Append(prev, snapshot)

\* lines 588-593: the updater of recordState
newHistory(prev, snapshot) ==
    LET appended == Append(prev, snapshot)
    IN IF Len(appended) > HistoryLimit THEN Tail(appended) ELSE appended

\* lines 587-594: recordState of the render that saw the snapshot
recordState(a, snapshot) == [a EXCEPT !.history = newHistory(@, snapshot)]

\* lines 512-518
resetDockTimer(a) == [a EXCEPT !.isDockVisible = TRUE, !.dockTimerRef = "pending"]

\* line 909
handleAddRoad(a, p1, p2) ==
    [a EXCEPT !.customRoads = Append(@, [p1 |-> p1, p2 |-> p2]), !.activeTool = "SELECT"]

\* a change of React state renders the App again
Rerender(a, b) == \E f \in StateFields : a[f] # b[f]

\* MapCanvas.tsx lines 129-139: handleAddRoad is a new function in every
\* render of the App, so every render runs the cleanup of the click
\* effect, which clears roadStartRef, and the effect again
AfterRender(a, b, roadStartRef) == IF Rerender(a, b) THEN Null ELSE roadStartRef

\* MapCanvas.tsx lines 84-119: handleClick at position p, as the App
\* after it and the roadStartRef after it
handleClick(a, roadStartRef, p) ==
    CASE a.activeTool = "DRAW_SITE" ->
           [app |-> [recordState(a, Snapshot(a)) EXCEPT !.sitePoints = Append(@, p)],
            roadStartRef |-> roadStartRef]
      [] a.activeTool = "PLACE_PARK" ->
           [app |-> [recordState(a, Snapshot(a)) EXCEPT
                        !.constraints = Append(@, [type |-> "PARK_ANCHOR", position |-> p])],
            roadStartRef |-> roadStartRef]
      [] a.activeTool = "DRAW_ROAD" /\ Len(roadStartRef) = 0 ->
           [app |-> a, roadStartRef |-> Some(p)]
      [] a.activeTool = "DRAW_ROAD" /\ Len(roadStartRef) > 0 ->
           [app |-> handleAddRoad(recordState(a, Snapshot(a)), roadStartRef[1], p),
            roadStartRef |-> Null]
      [] OTHER -> [app |-> a, roadStartRef |-> roadStartRef]

\* the lists drawn on the map have room for one more element
RoomToDraw ==
    CASE app.activeTool = "DRAW_SITE" -> Len(app.sitePoints) < MaxDrawn
      [] app.activeTool = "PLACE_PARK" -> Len(app.constraints) < MaxDrawn
      [] app.activeTool = "DRAW_ROAD" -> Len(app.customRoads) < MaxDrawn
      [] OTHER -> TRUE

\* a click on the map: handleClick of the MapCanvas, then the click
\* listener of the window (line 553)
MapClick ==
    /\ app.pc = "mounted"
    /\ ~app.confirmationState.isOpen
    /\ RoomToDraw
    /\ \E p \in MapPoints :
          LET clicked == handleClick(app, canvas.roadStartRef, p)
          IN /\ app' = resetDockTimer(clicked.app)
             /\ canvas' = [canvas EXCEPT
                              !.roadStartRef = AfterRender(app, app', clicked.roadStartRef)]
    /\ UNCHANGED <<callState, temp, planting, layer>>

\* lines 1073-1076, 1087: a click on a tool button of the dock
SelectTool ==
    /\ app.pc = "mounted"
    /\ ~app.confirmationState.isOpen
    /\ \E tool \in {"SELECT", "DRAW_SITE", "PLACE_PARK", "DRAW_ROAD"} :
          app' = resetDockTimer([app EXCEPT !.activeTool = tool])
    /\ canvas' = [canvas EXCEPT !.roadStartRef = AfterRender(app, app', @)]
    /\ UNCHANGED <<callState, temp, planting, layer>>

\* line 551: the mouse moves
MouseMove ==
    /\ app.pc = "mounted"
    /\ app' = resetDockTimer(app)
    /\ canvas' = [canvas EXCEPT !.roadStartRef = AfterRender(app, app', @)]
    /\ UNCHANGED <<callState, temp, planting, layer>>

\* lines 515-517: four seconds have passed without an event
DockTimeout ==
    /\ app.pc = "mounted"
    /\ app.dockTimerRef = "pending"
    /\ app' = [app EXCEPT !.isDockVisible = FALSE, !.dockTimerRef = "fired"]
    /\ canvas' = [canvas EXCEPT !.roadStartRef = AfterRender(app, app', @)]
    /\ UNCHANGED <<callState, temp, planting, layer>>

\* lines 596-605: handleUndo
undone(a) ==
    IF Len(a.history) = 0 THEN a
    ELSE LET lastState == a.history[Len(a.history)]
             remaining == SubSeq(a.history, 1, Len(a.history) - 1)
         IN [a EXCEPT !.history = remaining,
                      !.sitePoints = lastState.sitePoints,
                      !.constraints = lastState.constraints,
                      !.config = lastState.config,
                      !.customRoads = lastState.customRoads,
                      !.overrides = lastState.overrides]

\* lines 623-627: Ctrl+Z, which the window hears whatever is open
Undo ==
    /\ app.pc = "mounted"
    /\ app' = resetDockTimer(undone(app))
    /\ canvas' = [canvas EXCEPT !.roadStartRef = AfterRender(app, app', @)]
    /\ UNCHANGED <<callState, temp, planting, layer>>

\* line 1126: the pointer goes down on the slider of the stories
PointerDown ==
    /\ app.pc = "mounted"
    /\ ~app.confirmationState.isOpen
    /\ app' = resetDockTimer(recordState(app, Snapshot(app)))
    /\ canvas' = [canvas EXCEPT !.roadStartRef = AfterRender(app, app', @)]
    /\ UNCHANGED <<callState, temp, planting, layer>>

\* line 1126: the slider of the stories is moved
SetStories ==
    /\ app.pc = "mounted"
    /\ ~app.confirmationState.isOpen
    /\ app.edits < MaxEdits
    /\ \E stories \in Stories \ {app.config.stories} :
          app' = resetDockTimer([app EXCEPT !.config = [@ EXCEPT !.stories = stories],
                                            !.edits = @ + 1])
    /\ canvas' = [canvas EXCEPT !.roadStartRef = AfterRender(app, app', @)]
    /\ UNCHANGED <<callState, temp, planting, layer>>

\* lines 489-505: requestConfirmation keeps the callback it is given
requestConfirmation(a, onConfirm) ==
    [a EXCEPT !.confirmationState = [isOpen |-> TRUE, onConfirm |-> Some(onConfirm)]]

\* lines 607-621: handleClearAll; its callback calls the recordState of
\* the render in which the dialog was asked for
ClearAll ==
    /\ app.pc = "mounted"
    /\ ~app.confirmationState.isOpen
    /\ app' = resetDockTimer(requestConfirmation(app,
                  [does |-> "clear", saw |-> Snapshot(app)]))
    /\ canvas' = [canvas EXCEPT !.roadStartRef = AfterRender(app, app', @)]
    /\ UNCHANGED <<callState, temp, planting, layer>>

\* lines 638-650: loadProject
LoadProject ==
    /\ app.pc = "mounted"
    /\ ~app.confirmationState.isOpen
    /\ app.edits < MaxEdits
    /\ app' = resetDockTimer(requestConfirmation(app,
                  [does |-> "load", saw |-> SavedProject]))
    /\ canvas' = [canvas EXCEPT !.roadStartRef = AfterRender(app, app', @)]
    /\ UNCHANGED <<callState, temp, planting, layer>>

\* lines 611-616 and 642-645: the callbacks of the two dialogs
confirmed(a, onConfirm) ==
    IF onConfirm.does = "clear"
    THEN [recordState(a, onConfirm.saw) EXCEPT
             !.sitePoints = <<>>, !.constraints = <<>>, !.customRoads = <<>>,
             !.overrides = {}]
    ELSE [a EXCEPT !.sitePoints = onConfirm.saw.sitePoints,
                   !.constraints = onConfirm.saw.constraints,
                   !.config = onConfirm.saw.config,
                   !.customRoads = onConfirm.saw.customRoads,
                   !.overrides = onConfirm.saw.overrides,
                   !.history = <<>>,
                   !.activeTool = "SELECT"]

\* lines 501-504: the dialog is confirmed
Confirm ==
    /\ app.pc = "mounted"
    /\ app.confirmationState.isOpen
    /\ app' = resetDockTimer(
                  [confirmed(app, app.confirmationState.onConfirm[1]) EXCEPT
                      !.confirmationState = [@ EXCEPT !.isOpen = FALSE],
                      !.edits = IF app.confirmationState.onConfirm[1].does = "load"
                                THEN @ + 1 ELSE @])
    /\ canvas' = [canvas EXCEPT !.roadStartRef = AfterRender(app, app', @)]
    /\ UNCHANGED <<callState, temp, planting, layer>>

\* line 487: the dialog is cancelled
Cancel ==
    /\ app.pc = "mounted"
    /\ app.confirmationState.isOpen
    /\ app' = resetDockTimer([app EXCEPT !.confirmationState = [@ EXCEPT !.isOpen = FALSE]])
    /\ canvas' = [canvas EXCEPT !.roadStartRef = AfterRender(app, app', @)]
    /\ UNCHANGED <<callState, temp, planting, layer>>

InitEditor ==
    /\ NoCall
    /\ planting = noPlanting
    /\ layer = noLayer
    /\ app = Mounted
    /\ canvas = [pc |-> "mounted", roadStartRef |-> Null]

\* drawing on the map
NextDraw ==
    \/ MapClick
    \/ SelectTool
    \/ MouseMove
    \/ DockTimeout
    \/ Undo

SpecDraw == InitEditor /\ [][NextDraw]_vars

\* the history of the editor
NextHistory ==
    \/ PointerDown
    \/ SetStories
    \/ Undo
    \/ ClearAll
    \/ LoadProject
    \/ Confirm
    \/ Cancel

SpecHistory == InitEditor /\ [][NextHistory]_vars

\* ------------------------------------------------------------------------
\* Properties of the editor
\* ------------------------------------------------------------------------

\* a map click with a start point pending adds the road from the start
\* point to the click, clears the start point and selects SELECT
AddsRoad ==
    /\ \E p \in MapPoints :
          app'.customRoads =
              Append(app.customRoads, [p1 |-> canvas.roadStartRef[1], p2 |-> p])
    /\ canvas'.roadStartRef = Null
    /\ app'.activeTool = "SELECT"

\* C27: in DRAW_ROAD mode a custom road is added by exactly two map
\* clicks: once a first click has stored the start point, and as long as
\* the active tool is not changed, every other event (the dock timer
\* firing, the mouse moving, the App rendering again) leaves the start
\* point pending, and the next map click adds one road from it to the
\* click, clears it and selects SELECT
C27_TwoClicksAddRoad ==
    [][(canvas.roadStartRef # Null /\ app.activeTool = "DRAW_ROAD") =>
          IF MapClick
          THEN AddsRoad
          ELSE app'.activeTool = app.activeTool =>
                  canvas'.roadStartRef = canvas.roadStartRef]_vars

\* a step in which recordState is called: the pointer goes down on the
\* slider, or the clear-all dialog is confirmed
RecordStep ==
    \/ PointerDown
    \/ Confirm /\ app.confirmationState.onConfirm[1].does = "clear"

\* a step in which a project is loaded
LoadStep == Confirm /\ app.confirmationState.onConfirm[1].does = "load"

\* C28: undo is the inverse of the last recorded snapshot: recordState
\* called in editor state S (sitePoints, constraints, config, customRoads,
\* overrides) records S, and handleUndo restores the five components to
\* the last snapshot and removes exactly that snapshot from the history;
\* handleUndo on an empty history changes neither the editor state nor
\* the history
C28_UndoRestoresRecorded ==
    [][/\ RecordStep => app'.history[Len(app'.history)] = Snapshot(app)
       /\ Undo =>
             IF Len(app.history) = 0
             THEN Snapshot(app') = Snapshot(app) /\ app'.history = app.history
             ELSE /\ Snapshot(app') = app.history[Len(app.history)]
                  /\ app'.history = SubSeq(app.history, 1, Len(app.history) - 1)]_vars

\* what holds of undo alone
UndoRestoresLast ==
    [][Undo =>
          IF Len(app.history) = 0
          THEN Snapshot(app') = Snapshot(app) /\ app'.history = app.history
          ELSE /\ Snapshot(app') = app.history[Len(app.history)]
               /\ app'.history = SubSeq(app.history, 1, Len(app.history) - 1)]_vars

\* C29: after any sequence of recordState, handleUndo, clear-all and
\* project-load operations the history holds at most 50 snapshots; a
\* snapshot recorded on a full history drops the oldest one and keeps the
\* order of the others, and loading a project empties the history
C29_HistoryBounded ==
    /\ [](Len(app.history) <= 50)
    /\ [][/\ RecordStep /\ Len(app.history) = 50 =>
                /\ Len(app'.history) = 50
                /\ SubSeq(app'.history, 1, 49) = Tail(app.history)
          /\ RecordStep /\ Len(app.history) < 50 =>
                SubSeq(app'.history, 1, Len(app.history)) = app.history
          /\ LoadStep => Len(app'.history) = 0]_vars

\* a full history that holds snapshots of two editor states, the newest
\* of them of the project loaded
C29_Witness ==
    /\ Len(app.history) = 50
    /\ app.history[1] # app.history[50]
    /\ app.edits = 1

================================================================
